---- MODULE Spec2Model ----
(***************************************************************************)
(* Model of the review pipeline of github-code-review-action:              *)
(* configuration resolution (config/index.ts), the CodeReviewAgent        *)
(* (agents/code-reviewer.ts and its two sibling versions), the result      *)
(* normaliser and the status engine.                                       *)
(*                                                                         *)
(* JavaScript values are modelled as follows.                              *)
(*  - An object is a function whose DOMAIN is the set of keys it owns, so  *)
(*    `'k' in obj` is k \in DOMAIN obj and object spread is function       *)
(*    override.                                                            *)
(*  - An optional property value is a sequence: <<>> is undefined and      *)
(*    <<v>> is the defined value v.                                        *)
(*  - Free text whose letters matter (severity and category vocabulary)    *)
(*    is a sequence of one-character strings.                              *)
(***************************************************************************)
EXTENDS Integers, Sequences, FiniteSets, TLC

VARIABLES
    envApiKey,      \* process.env.ANTHROPIC_API_KEY: <<>> unset, <<"">>, <<"sk">>
    impl,           \* which source file's entry point runs
    userConfig,     \* the Partial<ReviewConfig> handed to the constructor
    ctor,           \* "pending" | "ok" | "threw"
    ctorError,      \* message of the Error thrown by the constructor, "" if none
    config,         \* this.config
    sessionId,      \* this.sessionId
    pc,             \* position of the review() invocation
    prompt,         \* the prompt handed to query(), <<>> before any was built
    options,        \* the Options handed to query(), <<>> before any was built
    nQueries,       \* number of query() calls made so far
    resultText,     \* local of review()
    totalCostUsd,   \* local of review()
    durationMs,     \* local of review()
    nEvents,        \* messages consumed by the running for-await loop
    nResults,       \* result messages consumed by the running loop
    result,         \* <<>> or <<ReviewResult>> returned by the last review()
    nReviews,       \* review() invocations started on this agent
    thrown,         \* <<>> or <<error that left the last review()>>
    fnText,         \* input of the normaliser under test
    fnParsed,       \* <<>> or <<outcome of parseResults(fnText)>>
    fnStatus,       \* <<>> or <<determineStatus of the parsed issues>>
    fnCounts,       \* <<>> or <<countByCategory of the parsed issues>>
    fnStats004,     \* <<>> or <<outcome of part_004's parse and buildStats on fnText>>
    fnFiltered,     \* <<>> or <<the parsed issues filtered at two thresholds>>
    streamSessionId, \* first session_id the running stream carried, <<>> if none yet
    exitCode,       \* <<>> or <<code the CLI passed to process.exit>>
    outputError,    \* the CLI failed to format or write the report
    calls,          \* concurrent review() invocations: their locals and position
    agentSessionIds, \* this.sessionId of each agent instance under concurrent use
    lastEvent,      \* <<>> or <<type and keys of the message the loop consumed last>>
    fnMerged,       \* <<>> or <<the rules resolved from a reordering of the rule lists>>
    action          \* the run of the GitHub Action entry point

vars == <<envApiKey, impl, userConfig, ctor, ctorError, config, sessionId, pc,
          prompt, options, nQueries, resultText, totalCostUsd, durationMs,
          nEvents, nResults, result, nReviews, thrown, fnText, fnParsed, fnStatus,
          fnCounts, fnStats004, fnFiltered, streamSessionId, exitCode, outputError,
          calls, agentSessionIds, lastEvent, fnMerged, action>>

agentVars == <<envApiKey, impl, userConfig, ctor, ctorError, config>>
reviewVars == <<sessionId, pc, prompt, options, nQueries, resultText,
                totalCostUsd, durationMs, nEvents, nResults, result, nReviews, thrown,
                streamSessionId, lastEvent>>
fnVars == <<fnText, fnParsed, fnStatus, fnCounts, fnStats004, fnFiltered, fnMerged>>
hostVars == <<exitCode, outputError, action>>
concurrentVars == <<calls, agentSessionIds>>

----------------------------------------------------------------------------
(* Bounds of the model                                                     *)

MaxUserRules == 2      \* length of a user-supplied rule list
MaxUserExcludes == 2   \* length of a user-supplied excludePatterns list
MaxEvents == 3         \* messages one agent stream emits
MaxReviews == 2        \* review() calls made on one agent
MaxIssues == 3         \* findings in one JSON payload
MaxTokens == 3         \* tokens of a terminal text

----------------------------------------------------------------------------
(* JavaScript helpers                                                      *)

Undefined == <<>>
Some(v) == <<v>>
IsDefined(x) == x # <<>>

\* obj.k : undefined when the object does not own k
Get(obj, k) == IF k \in DOMAIN obj THEN obj[k] ELSE Undefined

\* { ...a, ...b }
Spread(a, b) ==
    [k \in (DOMAIN a) \cup (DOMAIN b) |-> IF k \in DOMAIN b THEN b[k] ELSE a[k]]

\* truthiness of an optional number, string, and object/array
TruthyNum(x) == IsDefined(x) /\ x[1] # 0
TruthyStr(x) == IsDefined(x) /\ x[1] # ""
TruthyObj(x) == IsDefined(x)

Range(s) == {s[i] : i \in DOMAIN s}

SeqsUpTo(S, n) == UNION {[1..k -> S] : k \in 0..n}

----------------------------------------------------------------------------
(* config/default-rules.ts                                                 *)

Rule(id, name, sev, cat, en) ==
    [id |-> id, name |-> name, severity |-> sev, category |-> cat, enabled |-> en]

DEFAULT_RULES == <<
    Rule("security-no-hardcoded-secrets", "No Hardcoded Secrets", "critical", "security", TRUE),
    Rule("security-sql-injection", "SQL Injection Prevention", "critical", "security", TRUE),
    Rule("security-xss", "XSS Prevention", "critical", "security", TRUE),
    Rule("security-command-injection", "Command Injection Prevention", "critical", "security", TRUE),
    Rule("performance-inefficient-loops", "Inefficient Loops", "warning", "performance", TRUE),
    Rule("performance-memory-leaks", "Potential Memory Leaks", "error", "performance", TRUE),
    Rule("performance-unnecessary-computations", "Unnecessary Computations", "info", "performance", TRUE),
    Rule("bugs-null-reference", "Null Reference Errors", "error", "bugs", TRUE),
    Rule("bugs-type-errors", "Type Errors", "error", "bugs", TRUE),
    Rule("bugs-logic-errors", "Logic Errors", "error", "bugs", TRUE),
    Rule("best-practices-error-handling", "Proper Error Handling", "warning", "best-practices", TRUE),
    Rule("best-practices-async-await", "Async/Await Usage", "warning", "best-practices", TRUE),
    Rule("best-practices-immutability", "Immutability", "info", "best-practices", TRUE),
    Rule("maintainability-complexity", "Code Complexity", "warning", "maintainability", TRUE),
    Rule("maintainability-function-length", "Function Length", "info", "maintainability", TRUE),
    Rule("maintainability-duplication", "Code Duplication", "warning", "maintainability", TRUE),
    Rule("documentation-missing-comments", "Missing Documentation", "info", "documentation", TRUE),
    Rule("documentation-outdated-comments", "Outdated Comments", "info", "documentation", TRUE),
    Rule("style-naming-conventions", "Naming Conventions", "info", "style", FALSE),
    Rule("style-code-formatting", "Code Formatting", "info", "style", FALSE) >>

\* rules.filter((rule) => rule.enabled)
RECURSIVE EnabledOnly(_)
EnabledOnly(rules) ==
    IF rules = <<>> THEN <<>>
    ELSE IF Head(rules).enabled THEN <<Head(rules)>> \o EnabledOnly(Tail(rules))
         ELSE EnabledOnly(Tail(rules))

getEnabledRules == EnabledOnly(DEFAULT_RULES)

----------------------------------------------------------------------------
(* config/index.ts                                                         *)

BASELINE_EXCLUDES ==
    << "node_modules/**", "dist/**", "build/**", "*.min.js", "*.bundle.js",
       "coverage/**", ".git/**", "*.log" >>

\* The environment variables MAX_FILES_PER_REVIEW, MAX_BUDGET_USD, MODEL and
\* LOG_LEVEL are unset, so the literals of the source apply.
DEFAULT_CONFIG ==
    [maxFiles |-> Some(50),
     maxBudgetUsd |-> Some(5),
     model |-> Some("claude-sonnet-4.5-20250929"),
     excludePatterns |-> Some(BASELINE_EXCLUDES),
     includePatterns |-> Some(<<"**/*.ts", "**/*.js", "**/*.tsx", "**/*.jsx">>),
     cwd |-> Some("process.cwd"),
     verbose |-> Some(FALSE),
     severityThreshold |-> Some("info")]

\* Map.prototype.set on an insertion-ordered map held as a sequence of rules:
\* an existing key keeps its position and takes the new value.
MapSet(m, rule) ==
    IF \E i \in DOMAIN m : m[i].id = rule.id
    THEN [i \in DOMAIN m |-> IF m[i].id = rule.id THEN rule ELSE m[i]]
    ELSE Append(m, rule)

RECURSIVE MapSetAll(_, _)
MapSetAll(m, rules) ==
    IF rules = <<>> THEN m ELSE MapSetAll(MapSet(m, Head(rules)), Tail(rules))

\* a merge that applies only the last rule of the user list
mergeRulesLastUserRule(defaultRules, userRules) ==
    LET rulesMap == MapSetAll(<<>>, defaultRules)
    IN EnabledOnly(IF userRules = <<>> THEN rulesMap
                   ELSE MapSet(rulesMap, userRules[Len(userRules)]))

\* a merge that lets a default rule's enabled flag survive the override
mergeRulesFieldMerge(defaultRules, userRules) ==
    LET rulesMap == MapSetAll(<<>>, defaultRules)
        merged == MapSetAll(rulesMap, userRules)
        WasEnabled(id) == \E j \in DOMAIN rulesMap :
                              rulesMap[j].id = id /\ rulesMap[j].enabled
    IN EnabledOnly([i \in DOMAIN merged |->
            [merged[i] EXCEPT !.enabled = @ \/ WasEnabled(merged[i].id)]])

mergeRules(defaultRules, userRules) ==
    LET rulesMap == MapSetAll(<<>>, defaultRules)
    IN EnabledOnly(MapSetAll(rulesMap, userRules))

buildConfig(uc) ==
    LET spread == Spread(DEFAULT_CONFIG, uc)
        rules == IF TruthyObj(Get(uc, "rules"))
                 THEN mergeRules(DEFAULT_RULES, uc["rules"][1])
                 ELSE getEnabledRules
        withRules == Spread(spread, [rules |-> Some(rules)])
    IN IF TruthyObj(Get(uc, "excludePatterns"))
       THEN Spread(withRules,
                [excludePatterns |->
                    Some(DEFAULT_CONFIG.excludePatterns[1] \o uc["excludePatterns"][1])])
       ELSE withRules

\* a validation that forgets the credential
validateConfigNoKeyCheck(cfg, apiKey) ==
    IF TruthyNum(Get(cfg, "maxFiles")) /\ Get(cfg, "maxFiles")[1] <= 0
    THEN "maxFiles must be greater than 0"
    ELSE IF TruthyNum(Get(cfg, "maxBudgetUsd")) /\ Get(cfg, "maxBudgetUsd")[1] <= 0
    THEN "maxBudgetUsd must be greater than 0"
    ELSE ""

\* The message of the Error validateConfig throws, "" when it returns.
validateConfig(cfg, apiKey) ==
    IF TruthyNum(Get(cfg, "maxFiles")) /\ Get(cfg, "maxFiles")[1] <= 0
    THEN "maxFiles must be greater than 0"
    ELSE IF TruthyNum(Get(cfg, "maxBudgetUsd")) /\ Get(cfg, "maxBudgetUsd")[1] <= 0
    THEN "maxBudgetUsd must be greater than 0"
    ELSE IF ~TruthyStr(apiKey)
    THEN "ANTHROPIC_API_KEY environment variable is required"
    ELSE ""

----------------------------------------------------------------------------
(* Text: letters, case conversion, substring search                        *)

LowerLetters == << "a","b","c","d","e","f","g","h","i","j","k","l","m",
                   "n","o","p","q","r","s","t","u","v","w","x","y","z" >>
UpperLetters == << "A","B","C","D","E","F","G","H","I","J","K","L","M",
                   "N","O","P","Q","R","S","T","U","V","W","X","Y","Z" >>

toUpperCase(s) ==
    [i \in DOMAIN s |->
        IF \E k \in DOMAIN LowerLetters : LowerLetters[k] = s[i]
        THEN UpperLetters[CHOOSE k \in DOMAIN LowerLetters : LowerLetters[k] = s[i]]
        ELSE s[i]]

toLowerCase(s) ==
    [i \in DOMAIN s |->
        IF \E k \in DOMAIN UpperLetters : UpperLetters[k] = s[i]
        THEN LowerLetters[CHOOSE k \in DOMAIN UpperLetters : UpperLetters[k] = s[i]]
        ELSE s[i]]

\* String.prototype.includes
includes(s, sub) ==
    \E i \in 1..(Len(s) - Len(sub) + 1) : SubSeq(s, i, i + Len(sub) - 1) = sub

W_HIGH == << "H","I","G","H" >>
W_CRITICAL == << "C","R","I","T","I","C","A","L" >>
W_MEDIUM == << "M","E","D","I","U","M" >>
W_ERROR == << "E","R","R","O","R" >>
W_LOW == << "L","O","W" >>
W_WARNING == << "W","A","R","N","I","N","G" >>
W_INFO == << "I","N","F","O" >>
W_CRITICAL_lower == << "c","r","i","t","i","c","a","l" >>
W_ERROR_lower == << "e","r","r","o","r" >>
W_WARNING_lower == << "w","a","r","n","i","n","g" >>
W_INFO_lower == << "i","n","f","o" >>
W_security == << "s","e","c","u","r","i","t","y" >>
W_performance == << "p","e","r","f","o","r","m","a","n","c","e" >>
W_bug == << "b","u","g" >>
W_maintain == << "m","a","i","n","t","a","i","n" >>
W_doc == << "d","o","c" >>
W_style == << "s","t","y","l","e" >>

----------------------------------------------------------------------------
(* JSON values as JSON.parse produces them                                 *)

JUndef == [t |-> "undef"]
JNull == [t |-> "null"]
JNum(n) == [t |-> "num", n |-> n]
JStr(s) == [t |-> "str", s |-> s]
JArr(a) == [t |-> "arr", a |-> a]
JObj(o) == [t |-> "obj", o |-> o]

JTruthy(v) ==
    CASE v.t = "undef" -> FALSE
      [] v.t = "null" -> FALSE
      [] v.t = "num" -> v.n # 0
      [] v.t = "str" -> v.s # <<>>
      [] OTHER -> TRUE

\* a || b
Or(a, b) == IF JTruthy(a) THEN a ELSE b

\* v.k for a value that is neither null nor undefined
Prop(v, k) ==
    IF v.t = "obj" /\ k \in DOMAIN v.o THEN v.o[k] ELSE JUndef

\* reading a property of null or undefined is a TypeError
PropThrows(v) == v.t \in {"undef", "null"}

\* v.length
JLength(v) ==
    CASE v.t = "arr" -> Some(Len(v.a))
      [] v.t = "str" -> Some(Len(v.s))
      [] OTHER -> Undefined

----------------------------------------------------------------------------
(* agents/code-reviewer.ts: classification                                 *)

\* a mapping that compares without converting the case
mapSeverityCaseSensitive(severity) ==
    LET s == severity
    IN IF s = W_HIGH \/ s = W_CRITICAL THEN "critical"
       ELSE IF s = W_MEDIUM \/ s = W_ERROR THEN "error"
       ELSE IF s = W_LOW \/ s = W_WARNING THEN "warning"
       ELSE "info"

mapSeverity(severity) ==
    LET s == toUpperCase(severity)
    IN IF s = W_HIGH \/ s = W_CRITICAL THEN "critical"
       ELSE IF s = W_MEDIUM \/ s = W_ERROR THEN "error"
       ELSE IF s = W_LOW \/ s = W_WARNING THEN "warning"
       ELSE "info"

\* a mapping that tests performance before security
mapCategoryPerformanceFirst(category) ==
    IF category = <<>> THEN "best-practices"
    ELSE LET cat == toLowerCase(category)
         IN IF includes(cat, W_performance) THEN "performance"
            ELSE IF includes(cat, W_security) THEN "security"
            ELSE IF includes(cat, W_bug) THEN "bugs"
            ELSE IF includes(cat, W_maintain) THEN "maintainability"
            ELSE IF includes(cat, W_doc) THEN "documentation"
            ELSE IF includes(cat, W_style) THEN "style"
            ELSE "best-practices"

mapCategory(category) ==
    IF category = <<>> THEN "best-practices"
    ELSE LET cat == toLowerCase(category)
         IN IF includes(cat, W_security) THEN "security"
            ELSE IF includes(cat, W_performance) THEN "performance"
            ELSE IF includes(cat, W_bug) THEN "bugs"
            ELSE IF includes(cat, W_maintain) THEN "maintainability"
            ELSE IF includes(cat, W_doc) THEN "documentation"
            ELSE IF includes(cat, W_style) THEN "style"
            ELSE "best-practices"

----------------------------------------------------------------------------
(* Terminal text.  A text is a sequence of tokens plus the object that a    *)
(* "J" token spells:                                                        *)
(*   "p"  prose without braces (not white space)                            *)
(*   "{"  a lone opening brace       "}"  a lone closing brace              *)
(*   "J"  the serialisation of the JSON object `obj`: begins with '{',      *)
(*        ends with '}', and is well-formed JSON                            *)

Tokens == {"p", "{", "}", "J"}
Opens == {"{", "J"}
Closes == {"}", "J"}

EmptyObject == JObj(<<>>)
EmptyText == [toks |-> <<>>, obj |-> EmptyObject]

\* a lazy match: the span ends at the first '}' that follows the first '{'
jsonMatchFirstClose(text) ==
    LET toks == text.toks
        os == {i \in DOMAIN toks : toks[i] \in Opens}
    IN IF os = {} THEN Undefined
       ELSE LET first == CHOOSE i \in os : \A j \in os : i <= j
                cs == {i \in DOMAIN toks : toks[i] \in Closes /\ first <= i}
            IN IF cs = {} THEN Undefined
               ELSE Some(SubSeq(toks, first, CHOOSE i \in cs : \A j \in cs : i <= j))

\* resultText.match(/\{[\s\S]*\}/): the span from the first '{' to the last
\* '}' of the text, <<>> (null) when no '{' is followed by a '}'.
jsonMatch(text) ==
    LET toks == text.toks
        os == {i \in DOMAIN toks : toks[i] \in Opens}
        cs == {i \in DOMAIN toks : toks[i] \in Closes}
    IN IF os = {} \/ cs = {} THEN Undefined
       ELSE LET first == CHOOSE i \in os : \A j \in os : i <= j
                last == CHOOSE i \in cs : \A j \in cs : j <= i
            IN IF first <= last THEN Some(SubSeq(toks, first, last)) ELSE Undefined

\* JSON.parse of a span: the only spans that are JSON are the serialised
\* object alone and the empty object "{}".
JsonParses(span) == span = <<"J">> \/ span = <<"{", "}">>
JsonValue(span, obj) == IF span = <<"J">> THEN obj ELSE EmptyObject

----------------------------------------------------------------------------
(* agents/code-reviewer.ts: parseResults                                   *)

PassThroughKeys ==
    {"summary", "prIntent", "impactAnalysis", "edgeCases", "missingTests",
     "missingDocumentation", "recommendations"}

EmptyParsed ==
    [issues |-> <<>>, filesReviewed |-> JArr(<<>>), positives |-> JUndef,
     pass |-> [k \in PassThroughKeys |-> JUndef]]

SeverityArg(issue) == Or(Prop(issue, "severity"), JStr(W_INFO))
CategoryArg(issue) == Or(Prop(issue, "category"), JStr(<<>>))

\* The map callback raises a TypeError when the element is null (property
\* read) or when severity / category is a truthy non-string (toUpperCase /
\* toLowerCase is not a function).
IssueCallbackThrows(issue) ==
    \/ PropThrows(issue)
    \/ SeverityArg(issue).t # "str"
    \/ CategoryArg(issue).t # "str"

\* a normaliser that prefers the second key of each alias pair
NormalizeIssueSecondKeyFirst(issue) ==
    [ruleId |-> Or(Prop(issue, "ruleId"), JStr(<<"general">>)),
     severity |-> mapSeverity(SeverityArg(issue).s),
     category |-> mapCategory(CategoryArg(issue).s),
     filePath |-> Or(Prop(issue, "filePath"),
                     Or(Prop(issue, "file"), JStr(<<"unknown">>))),
     line |-> Prop(issue, "line"),
     message |-> Or(Prop(issue, "message"), Prop(issue, "description")),
     suggestion |-> Or(Prop(issue, "suggestion"), Prop(issue, "recommendation")),
     impact |-> Prop(issue, "impact")]

NormalizeIssue(issue) ==
    [ruleId |-> Or(Prop(issue, "ruleId"), JStr(<<"general">>)),
     severity |-> mapSeverity(SeverityArg(issue).s),
     category |-> mapCategory(CategoryArg(issue).s),
     filePath |-> Or(Prop(issue, "file"),
                     Or(Prop(issue, "filePath"), JStr(<<"unknown">>))),
     line |-> Prop(issue, "line"),
     message |-> Or(Prop(issue, "description"), Prop(issue, "message")),
     suggestion |-> Or(Prop(issue, "recommendation"), Prop(issue, "suggestion")),
     impact |-> Prop(issue, "impact")]

\* The body of the try block: how it completes.
\*   "return"      the return statement inside `if (jsonMatch)` was reached
\*   "fallthrough" no match, control leaves the try block normally
\*   "throw"       an exception left the try block
TryBody(text) ==
    LET m == jsonMatch(text)
    IN IF ~IsDefined(m) THEN [kind |-> "fallthrough"]
       ELSE IF ~JsonParses(m[1]) THEN [kind |-> "throw", error |-> "SyntaxError"]
       ELSE LET parsed == JsonValue(m[1], text.obj)
                raw == Or(Prop(parsed, "issues"), JArr(<<>>))
            IN IF raw.t # "arr"
               THEN [kind |-> "throw", error |-> "TypeError"]
               ELSE IF \E i \in DOMAIN raw.a : IssueCallbackThrows(raw.a[i])
               THEN [kind |-> "throw", error |-> "TypeError"]
               ELSE [kind |-> "return",
                     value |->
                       [issues |-> [i \in DOMAIN raw.a |-> NormalizeIssue(raw.a[i])],
                        filesReviewed |-> Or(Prop(parsed, "filesReviewed"), JArr(<<>>)),
                        positives |-> Or(Prop(parsed, "positiveFindings"),
                                         Prop(parsed, "positives")),
                        pass |-> [k \in PassThroughKeys |-> Prop(parsed, k)]]]

\* a normaliser whose catch block lets the exception escape
parseResultsRethrow(text) ==
    LET body == TryBody(text)
    IN CASE body.kind = "return" -> body
         [] body.kind = "throw" -> body
         [] OTHER -> [kind |-> "return", value |-> EmptyParsed]

\* The outcome of parseResults: [kind |-> "return", value |-> ...] or
\* [kind |-> "throw", error |-> ...].  The catch block swallows every
\* exception of the try block and control falls to the final return.
parseResults(text) ==
    LET body == TryBody(text)
    IN IF body.kind = "return" THEN body
       ELSE [kind |-> "return", value |-> EmptyParsed]

----------------------------------------------------------------------------
(* agents/code-reviewer.ts: aggregation                                    *)

SEVERITIES == {"info", "warning", "error", "critical"}
CATEGORIES == {"security", "performance", "bugs", "best-practices",
               "maintainability", "documentation", "style"}

\* the severity order turned upside down
severityLevelsReversed == << "critical", "error", "warning", "info" >>

severityLevels == << "info", "warning", "error", "critical" >>

\* Array.prototype.indexOf, 0-based, -1 when absent
indexOf(arr, x) ==
    IF \E i \in DOMAIN arr : arr[i] = x
    THEN (CHOOSE i \in DOMAIN arr : arr[i] = x /\ \A j \in DOMAIN arr : arr[j] = x => i <= j) - 1
    ELSE -1

RECURSIVE KeepAtLeast(_, _)
KeepAtLeast(issues, thresholdIndex) ==
    IF issues = <<>> THEN <<>>
    ELSE IF indexOf(severityLevels, Head(issues).severity) >= thresholdIndex
         THEN <<Head(issues)>> \o KeepAtLeast(Tail(issues), thresholdIndex)
         ELSE KeepAtLeast(Tail(issues), thresholdIndex)

\* a filter that drops the issues at the threshold itself
filterIssuesAboveThreshold(cfg, issues) ==
    IF ~TruthyStr(Get(cfg, "severityThreshold")) THEN issues
    ELSE KeepAtLeast(issues, indexOf(severityLevels, cfg["severityThreshold"][1]) + 1)

filterIssuesBySeverity(cfg, issues) ==
    IF ~TruthyStr(Get(cfg, "severityThreshold")) THEN issues
    ELSE KeepAtLeast(issues, indexOf(severityLevels, cfg["severityThreshold"][1]))

Some_(issues, sev) == \E i \in DOMAIN issues : issues[i].severity = sev
CountSev(issues, sev) == Cardinality({i \in DOMAIN issues : issues[i].severity = sev})

determineStatusErrorFirst(issues) ==
    IF Some_(issues, "error") THEN "partial"
    ELSE IF Some_(issues, "critical") THEN "failure"
    ELSE "success"

determineStatus(issues) ==
    LET hasCritical == Some_(issues, "critical")
        hasErrors == Some_(issues, "error")
    IN IF hasCritical THEN "failure"
       ELSE IF hasErrors THEN "partial"
       ELSE "success"

buildSummary(issues, filesReviewed, prIntent) ==
    [prIntent |-> IF JTruthy(prIntent) THEN prIntent ELSE JUndef,
     files |-> JLength(filesReviewed),
     found |-> Len(issues),
     critical |-> CountSev(issues, "critical"),
     errors |-> CountSev(issues, "error"),
     warnings |-> CountSev(issues, "warning")]

countBySeverity(issues) == [s \in SEVERITIES |-> CountSev(issues, s)]

\* a tally that leaves the fallback category out
countByCategoryWithoutFallback(issues) ==
    [c \in CATEGORIES |->
        IF c = "best-practices" THEN 0
        ELSE Cardinality({i \in DOMAIN issues : issues[i].category = c})]

countByCategory(issues) ==
    [c \in CATEGORIES |-> Cardinality({i \in DOMAIN issues : issues[i].category = c})]

----------------------------------------------------------------------------
(* Prompt and agent options of the entry points that call query()          *)

AgentImpls == {"code-reviewer", "part_004", "part_005"}
Impls == AgentImpls \cup {"review.ts"}

\* this.config.rules || []
RulesOf(cfg) == IF TruthyObj(Get(cfg, "rules")) THEN cfg["rules"][1] ELSE <<>>

\* this.config.prContext?.changedFiles is truthy
HasChangedFiles(cfg) ==
    /\ TruthyObj(Get(cfg, "prContext"))
    /\ TruthyObj(Get(cfg["prContext"][1], "changedFiles"))

\* pr.fileDiffs.slice(0, 15) and diff.patch.substring(0, 2000)
MaxDiffsShown == 15
MaxPatchChars == 2000

Min(a, b) == IF a <= b THEN a ELSE b

\* nothing of the changes is rendered
NoDiffs == [count |-> Undefined, files |-> <<>>, more |-> Undefined,
            changedFiles |-> Undefined]

\* One file of the "Changes Made" block.  A patch is held by its length in
\* characters; the block shows its first 2000 and then the truncation
\* marker when the patch is longer.  An absent or empty patch shows nothing.
RenderDiff(diff) ==
    [filename |-> diff.filename,
     patch |-> IF TruthyNum(diff.patch)
               THEN Some(Min(diff.patch[1], MaxPatchChars)) ELSE Undefined,
     truncated |-> TruthyNum(diff.patch) /\ diff.patch[1] > MaxPatchChars]

\* a rendering that leaves out the "... and N more files" line
RenderDiffsNoOmittedMarker(pr) ==
    LET fd == Get(pr, "fileDiffs")
    IN IF TruthyObj(fd) /\ Len(fd[1]) > 0
       THEN [count |-> Some(Len(fd[1])),
             files |-> [i \in 1..Min(Len(fd[1]), MaxDiffsShown) |-> RenderDiff(fd[1][i])],
             more |-> Undefined,
             changedFiles |-> Undefined]
       ELSE IF TruthyObj(Get(pr, "changedFiles"))
       THEN [NoDiffs EXCEPT !.changedFiles = pr["changedFiles"]]
       ELSE NoDiffs

\* The "Changes Made" block of the PR section, or the "Changed Files" line
\* when there are no diffs.
RenderDiffs(pr) ==
    LET fd == Get(pr, "fileDiffs")
    IN IF TruthyObj(fd) /\ Len(fd[1]) > 0
       THEN [count |-> Some(Len(fd[1])),
             files |-> [i \in 1..Min(Len(fd[1]), MaxDiffsShown) |-> RenderDiff(fd[1][i])],
             more |-> IF Len(fd[1]) > MaxDiffsShown
                      THEN Some(Len(fd[1]) - MaxDiffsShown) ELSE Undefined,
             changedFiles |-> Undefined]
       ELSE IF TruthyObj(Get(pr, "changedFiles"))
       THEN [NoDiffs EXCEPT !.changedFiles = pr["changedFiles"]]
       ELSE NoDiffs

\* a prompt whose priority line goes with the PR section
buildPromptPriorityWithSection(cfg) ==
    [prSection |-> TruthyObj(Get(cfg, "prContext")),
     diffs |-> IF TruthyObj(Get(cfg, "prContext"))
               THEN RenderDiffs(cfg["prContext"][1]) ELSE NoDiffs,
     rules |-> EnabledOnly(RulesOf(cfg)),
     priority |-> TruthyObj(Get(cfg, "prContext")),
     maxFiles |-> IF TruthyNum(Get(cfg, "maxFiles")) THEN cfg["maxFiles"][1] ELSE 30]

\* agents/code-reviewer.ts buildPrompt: the parts of the prompt that depend
\* on the configuration.
buildPrompt(cfg) ==
    [prSection |-> TruthyObj(Get(cfg, "prContext")),
     diffs |-> IF TruthyObj(Get(cfg, "prContext"))
               THEN RenderDiffs(cfg["prContext"][1]) ELSE NoDiffs,
     rules |-> EnabledOnly(RulesOf(cfg)),
     priority |-> HasChangedFiles(cfg),
     maxFiles |-> IF TruthyNum(Get(cfg, "maxFiles")) THEN cfg["maxFiles"][1] ELSE 30]

\* part_004 buildReviewPrompt: no PR section, maxFiles rendered as it is
buildReviewPrompt004(cfg) ==
    [prSection |-> FALSE,
     rules |-> EnabledOnly(RulesOf(cfg)),
     priority |-> FALSE,
     maxFiles |-> IF IsDefined(Get(cfg, "maxFiles")) THEN cfg["maxFiles"][1] ELSE -1]

\* part_005 buildReviewPrompt -> part_003 loadReviewPrompt
loadReviewPrompt(cfg) ==
    [prSection |-> TruthyObj(Get(cfg, "prContext")),
     rules |-> EnabledOnly(RulesOf(cfg)),
     priority |-> FALSE,
     maxFiles |-> IF TruthyNum(Get(cfg, "maxFiles")) THEN cfg["maxFiles"][1] ELSE 50]

\* review.ts: a fixed prompt
ScriptPrompt ==
    [prSection |-> FALSE, rules |-> <<>>, priority |-> FALSE, maxFiles |-> 25]

\* agents/code-reviewer.ts buildOptions
buildOptions(cfg) ==
    [allowedTools |-> << "Read", "Glob", "Grep" >>,
     permissionMode |-> "bypassPermissions",
     model |-> Get(cfg, "model"),
     maxBudgetUsd |-> Get(cfg, "maxBudgetUsd"),
     cwd |-> Get(cfg, "cwd")]

\* part_004 buildAgentOptions
buildAgentOptions004(cfg) ==
    [allowedTools |-> << "Read", "Glob", "Grep" >>,
     permissionMode |-> "bypassPermissions",
     model |-> Get(cfg, "model"),
     maxBudgetUsd |-> Get(cfg, "maxBudgetUsd"),
     cwd |-> Get(cfg, "cwd")]

\* part_005 buildAgentOptions
buildAgentOptions005(cfg) ==
    [allowedTools |-> << "Read", "Glob", "Grep", "Bash" >>,
     permissionMode |-> "bypassPermissions",
     model |-> Get(cfg, "model"),
     maxBudgetUsd |-> Get(cfg, "maxBudgetUsd"),
     cwd |-> Get(cfg, "cwd")]

\* review.ts reviewCode: the options literal; maxBudget defaults to 5.0
reviewCodeOptions ==
    [allowedTools |-> << "Read", "Glob", "Grep" >>,
     permissionMode |-> "bypassPermissions",
     model |-> Undefined,
     maxBudgetUsd |-> Some(5),
     cwd |-> Some("targetRepo")]

PromptFor(im, cfg) ==
    CASE im = "code-reviewer" -> buildPrompt(cfg)
      [] im = "part_004" -> buildReviewPrompt004(cfg)
      [] im = "part_005" -> loadReviewPrompt(cfg)

OptionsFor(im, cfg) ==
    CASE im = "code-reviewer" -> buildOptions(cfg)
      [] im = "part_004" -> buildAgentOptions004(cfg)
      [] im = "part_005" -> buildAgentOptions005(cfg)

----------------------------------------------------------------------------
(* agents/code-reviewer.ts: review()                                       *)

DEFAULT_MODEL == "claude-sonnet-4.5-20250929"

\* a result whose counts, summary and status see only the filtered issues
BuildResultCountsFiltered(cfg, sid, parsed, cost, dur) ==
    LET shown == filterIssuesBySeverity(cfg, parsed.issues)
    IN [status |-> determineStatus(shown),
        summary |-> buildSummary(shown, parsed.filesReviewed, parsed.pass["prIntent"]),
        prIntent |-> parsed.pass["prIntent"],
        issues |-> shown,
        positives |-> parsed.positives,
        filesReviewed |-> parsed.filesReviewed,
        filesSkipped |-> <<>>,
        stats |-> [totalFiles |-> JLength(parsed.filesReviewed),
                   totalIssues |-> Len(shown),
                   issuesBySeverity |-> countBySeverity(shown),
                   issuesByCategory |-> countByCategory(shown),
                   totalCostUsd |-> cost,
                   durationMs |-> dur],
        metadata |-> [model |-> IF TruthyStr(Get(cfg, "model")) THEN cfg["model"][1]
                                ELSE DEFAULT_MODEL,
                      sessionId |-> IF TruthyStr(sid) THEN sid[1] ELSE "unknown"]]

\* a result whose status looks only at the issues the threshold lets through
BuildResultStatusOfShown(cfg, sid, parsed, cost, dur) ==
    [status |-> determineStatus(filterIssuesBySeverity(cfg, parsed.issues)),
     summary |-> buildSummary(parsed.issues, parsed.filesReviewed, parsed.pass["prIntent"]),
     prIntent |-> parsed.pass["prIntent"],
     issues |-> filterIssuesBySeverity(cfg, parsed.issues),
     positives |-> parsed.positives,
     filesReviewed |-> parsed.filesReviewed,
     filesSkipped |-> <<>>,
     stats |-> [totalFiles |-> JLength(parsed.filesReviewed),
                totalIssues |-> Len(parsed.issues),
                issuesBySeverity |-> countBySeverity(parsed.issues),
                issuesByCategory |-> countByCategory(parsed.issues),
                totalCostUsd |-> cost,
                durationMs |-> dur],
     metadata |-> [model |-> IF TruthyStr(Get(cfg, "model")) THEN cfg["model"][1]
                             ELSE DEFAULT_MODEL,
                   sessionId |-> IF TruthyStr(sid) THEN sid[1] ELSE "unknown"]]

\* The ReviewResult literal of review(); startTime and endTime are wall
\* clock readings and are left out.
BuildResult(cfg, sid, parsed, cost, dur) ==
    [status |-> determineStatus(parsed.issues),
     summary |-> buildSummary(parsed.issues, parsed.filesReviewed, parsed.pass["prIntent"]),
     prIntent |-> parsed.pass["prIntent"],
     issues |-> filterIssuesBySeverity(cfg, parsed.issues),
     positives |-> parsed.positives,
     filesReviewed |-> parsed.filesReviewed,
     filesSkipped |-> <<>>,
     stats |-> [totalFiles |-> JLength(parsed.filesReviewed),
                totalIssues |-> Len(parsed.issues),
                issuesBySeverity |-> countBySeverity(parsed.issues),
                issuesByCategory |-> countByCategory(parsed.issues),
                totalCostUsd |-> cost,
                durationMs |-> dur],
     metadata |-> [model |-> IF TruthyStr(Get(cfg, "model")) THEN cfg["model"][1]
                             ELSE DEFAULT_MODEL,
                   sessionId |-> IF TruthyStr(sid) THEN sid[1] ELSE "unknown"]]

\* a catch block that turns the failure into an empty result
reviewCatchSwallow(cfg, sid, error) ==
    [kind |-> "return", value |-> BuildResult(cfg, sid, EmptyParsed, 0, 0)]

\* The catch block of review(): logs and rethrows.
reviewCatch(cfg, sid, error) == [kind |-> "throw", error |-> error]

\* a loop exit that insists on a terminal result
AfterLoopRequireResult(cfg, sid, text, cost, dur) ==
    LET p == parseResults(text)
    IN IF text.toks = <<>> THEN reviewCatch(cfg, sid, "NoResult")
       ELSE IF p.kind = "throw" THEN reviewCatch(cfg, sid, p.error)
       ELSE [kind |-> "return", value |-> BuildResult(cfg, sid, p.value, cost, dur)]

\* The code after the for-await loop: normalise and build the result.  An
\* exception of parseResults would reach the catch block of review().
AfterLoop(cfg, sid, text, cost, dur) ==
    LET p == parseResults(text)
    IN IF p.kind = "throw" THEN reviewCatch(cfg, sid, p.error)
       ELSE [kind |-> "return", value |-> BuildResult(cfg, sid, p.value, cost, dur)]

----------------------------------------------------------------------------
(* part_004: the agent version that aggregates the findings as parsed      *)

\* how the canonical severities and categories are spelled
SeveritySpelling ==
    [critical |-> W_CRITICAL_lower, error |-> W_ERROR_lower,
     warning |-> W_WARNING_lower, info |-> W_INFO_lower]

CategorySpelling ==
    [c \in CATEGORIES |->
        CASE c = "security" -> W_security
          [] c = "performance" -> W_performance
          [] c = "bugs" -> W_bug \o <<"s">>
          [] c = "best-practices" -> <<"b","e","s","t","-","p","r","a","c","t","i","c","e","s">>
          [] c = "maintainability" -> W_maintain \o <<"a","b","i","l","i","t","y">>
          [] c = "documentation" -> W_doc \o <<"u","m","e","n","t","a","t","i","o","n">>
          [] c = "style" -> W_style]

\* parseReviewResults of part_004: the parsed fields are returned as they are
parseReviewResults004(text) ==
    LET m == jsonMatch(text)
    IN IF IsDefined(m) /\ JsonParses(m[1])
       THEN LET parsed == JsonValue(m[1], text.obj)
            IN [issues |-> Or(Prop(parsed, "issues"), JArr(<<>>)),
                filesReviewed |-> Or(Prop(parsed, "filesReviewed"), JArr(<<>>)),
                filesSkipped |-> Or(Prop(parsed, "filesSkipped"), JArr(<<>>))]
       ELSE [issues |-> JArr(<<>>), filesReviewed |-> JArr(<<>>),
             filesSkipped |-> JArr(<<>>)]

\* push(...v): an array gives its elements, a string its characters, any
\* other value is not iterable
Iterable(v) == v.t \in {"arr", "str"}
Elements(v) == IF v.t = "arr" THEN v.a ELSE [i \in DOMAIN v.s |-> JStr(<<v.s[i]>>)]

\* the seeded key that obj[v] addresses, none when v spells no seeded key
SeededKey(spelling, v) ==
    IF v.t = "str" /\ \E k \in DOMAIN spelling : spelling[k] = v.s
    THEN Some(CHOOSE k \in DOMAIN spelling : spelling[k] = v.s)
    ELSE Undefined

\* counters seeded with zero and incremented with counters[issue[field]]++.
\* The object is [count, extra]: count holds the seeded keys, extra the
\* values that addressed no seeded key; each of those is a further key of
\* the object and holds NaN (undefined++).
Tally004(spelling, issues, field) ==
    [count |-> [k \in DOMAIN spelling |->
                  Cardinality({i \in DOMAIN issues :
                      SeededKey(spelling, Prop(issues[i], field)) = Some(k)})],
     extra |-> {Prop(issues[i], field) : i \in
                  {j \in DOMAIN issues :
                      ~IsDefined(SeededKey(spelling, Prop(issues[j], field)))}}]

buildStats004(issues, filesReviewed, cost, dur) ==
    [totalFiles |-> Len(filesReviewed),
     totalIssues |-> Len(issues),
     issuesBySeverity |-> Tally004(SeveritySpelling, issues, "severity"),
     issuesByCategory |-> Tally004(CategorySpelling, issues, "category"),
     totalCostUsd |-> cost,
     durationMs |-> dur]

\* review() of part_004 after its loop, up to the statistics: a value that
\* cannot be spread, or a finding that is null, raises a TypeError that
\* leaves review()
AfterLoop004(text, cost, dur) ==
    LET pr == parseReviewResults004(text)
    IN IF ~Iterable(pr.issues) \/ ~Iterable(pr.filesReviewed) \/ ~Iterable(pr.filesSkipped)
       THEN [kind |-> "throw", error |-> "TypeError"]
       ELSE IF \E i \in DOMAIN Elements(pr.issues) : PropThrows(Elements(pr.issues)[i])
       THEN [kind |-> "throw", error |-> "TypeError"]
       ELSE [kind |-> "return",
             value |-> buildStats004(Elements(pr.issues), Elements(pr.filesReviewed),
                                     cost, dur)]

----------------------------------------------------------------------------
(* Inputs                                                                  *)

OneKey(k, v) == [x \in {k} |-> v]
EmptyConfig == <<>>

ApiKeys == {Undefined, Some(""), Some("sk-key")}

UserRuleCandidates ==
    { Rule("security-xss", "user xss", "info", "security", FALSE),
      Rule("security-xss", "user xss", "info", "security", TRUE),
      Rule("style-naming-conventions", "user naming", "error", "style", TRUE),
      Rule("style-naming-conventions", "user naming", "error", "style", FALSE),
      Rule("custom-react-hooks", "React Hooks Best Practices", "error", "best-practices", TRUE),
      Rule("custom-react-hooks", "React Hooks Best Practices", "error", "best-practices", FALSE) }

UserExcludeCandidates == {"*.generated.ts", "node_modules/**"}

PrContexts == {<<>>, [changedFiles |-> Some(<<"a.ts">>)], [changedFiles |-> Some(<<>>)]}

\* pull requests of a few and of about fifteen files, every file with the
\* same patch, and of two files with any two patches
PatchLengths == {Undefined, Some(0), Some(100), Some(1999), Some(2000), Some(2001),
                 Some(5000)}
DiffCounts == {0, 1, 2, 14, 15, 16, 17}
DiffLists ==
    {[i \in 1..n |-> [filename |-> i, patch |-> len]] :
        n \in DiffCounts, len \in PatchLengths}
    \cup {<<[filename |-> 1, patch |-> a], [filename |-> 2, patch |-> b]>> :
            a \in PatchLengths, b \in PatchLengths}
DiffConfigs ==
    {OneKey("prContext", Some(Spread(pr, OneKey("fileDiffs", fd)))) :
        pr \in {<<>>, [changedFiles |-> Some(<<"a.ts">>)]},
        fd \in {Undefined} \cup {Some(list) : list \in DiffLists}}

ConfigKeys == {"maxFiles", "maxBudgetUsd", "model", "excludePatterns",
               "includePatterns", "cwd", "verbose", "severityThreshold",
               "rules", "prContext"}

\* the values a caller may supply under a key; Undefined is a key that is
\* present and holds undefined
KeyValues(k) ==
    CASE k = "maxFiles" -> {Undefined, Some(-1), Some(0), Some(1), Some(100)}
      [] k = "maxBudgetUsd" -> {Undefined, Some(-1), Some(0), Some(3)}
      [] k = "model" -> {Undefined, Some("claude-opus-4.5-20251101")}
      [] k = "excludePatterns" ->
            {Undefined} \cup {Some(s) : s \in SeqsUpTo(UserExcludeCandidates, MaxUserExcludes)}
      [] k = "includePatterns" -> {Undefined, Some(<<>>), Some(<<"**/*.py">>)}
      [] k = "cwd" -> {Undefined, Some("/repo")}
      [] k = "verbose" -> {Undefined, Some(TRUE), Some(FALSE)}
      [] k = "severityThreshold" ->
            {Undefined, Some("info"), Some("warning"), Some("error"), Some("critical")}
      [] k = "rules" ->
            {Undefined} \cup {Some(s) : s \in SeqsUpTo(UserRuleCandidates, MaxUserRules)}
      [] k = "prContext" -> {Undefined} \cup {Some(p) : p \in PrContexts}

\* every partial configuration that supplies at most two keys
UserConfigs ==
    {EmptyConfig}
    \cup UNION {{OneKey(k, v) : v \in KeyValues(k)} : k \in ConfigKeys}
    \cup UNION {UNION {{Spread(OneKey(k1, v1), OneKey(k2, v2)) :
                            v1 \in KeyValues(k1), v2 \in KeyValues(k2)}
                       : k2 \in ConfigKeys \ {k1, "rules"}}
                : k1 \in ConfigKeys}

\* the configurations the pipeline is run with
PipelineConfigs ==
    {EmptyConfig}
    \cup {OneKey("maxFiles", v) : v \in {Undefined, Some(-1), Some(0), Some(10)}}
    \cup {OneKey("maxBudgetUsd", v) : v \in {Some(-1), Some(0), Some(3)}}
    \cup {OneKey("severityThreshold", v) :
            v \in {Undefined, Some("warning"), Some("error"), Some("critical")}}

IssueA ==
    JObj([severity |-> JStr(W_HIGH), file |-> JStr(<<"a.ts">>),
          description |-> JStr(<<"x">>)])
IssueLowerCritical ==
    JObj([severity |-> JStr(<<"c","r","i","t","i","c","a","l">>),
          category |-> JStr(<<"S","e","c","u","r","i","t","y">>)])
IssueMedium ==
    JObj([severity |-> JStr(W_MEDIUM),
          category |-> JStr(<<"P","e","r","f","o","r","m","a","n","c","e">>)])
IssueError ==
    JObj([severity |-> JStr(<<"E","r","r","o","r">>), filePath |-> JStr(<<"b.ts">>),
          message |-> JStr(<<"m">>)])
IssueLow ==
    JObj([severity |-> JStr(W_LOW), category |-> JStr(<<"B","u","g">>)])
IssueInfo == JObj([severity |-> JStr(W_INFO)])
IssueBare == JObj(<<>>)
IssueNumericSeverity == JObj([severity |-> JNum(5)])
IssueNumericCategory == JObj([severity |-> JStr(W_LOW), category |-> JNum(7)])

RawIssues ==
    {IssueA, IssueLowerCritical, IssueMedium, IssueError, IssueLow, IssueInfo,
     IssueBare, IssueNumericSeverity, IssueNumericCategory, JNull}

FilesValues == {JArr(<<>>), JArr(<<JStr(<<"a.ts">>)>>), JNum(5)}

ObjWith(issues, files) == JObj([issues |-> issues, filesReviewed |-> files])

\* Scenario A of the specification
ObjA == ObjWith(JArr(<<IssueA>>), JArr(<<JStr(<<"a.ts">>)>>))

PipelineObjects ==
    { ObjA,
      ObjWith(JArr(<<IssueError, IssueLow>>), JArr(<<>>)),
      ObjWith(JArr(<<IssueLow, IssueInfo>>), JArr(<<JStr(<<"a.ts">>)>>)),
      ObjWith(JNum(5), JArr(<<>>)),
      ObjWith(JArr(<<IssueNumericSeverity>>), JArr(<<>>)) }

PipelineTexts ==
    {[toks |-> t, obj |-> EmptyObject] :
        t \in {<<>>, <<"p">>, <<"{", "p">>, <<"}", "{">>, <<"{", "}">>}}
    \cup {[toks |-> <<"p", "J", "p">>, obj |-> o] : o \in PipelineObjects}
    \cup {[toks |-> <<"J", "J">>, obj |-> ObjA]}

SessionIds == {"s1", "s2"}
Costs == {3}
Durations == {7}

\* the messages an agent stream may yield
Messages ==
    {[type |-> "system"], [type |-> "assistant"]}
    \cup {[type |-> "system", session_id |-> s] : s \in SessionIds}
    \cup {Spread([type |-> "result"], part) :
            part \in UNION {
                {<<>>},
                {OneKey("result", t) : t \in PipelineTexts},
                {OneKey("total_cost_usd", c) : c \in Costs},
                {OneKey("duration_ms", d) : d \in Durations},
                {[result |-> t, total_cost_usd |-> c, duration_ms |-> d] :
                    t \in PipelineTexts, c \in Costs, d \in Durations} }}

\* objects and texts for the normaliser
RichObjects ==
    {ObjWith(JArr(s), f) : s \in SeqsUpTo(RawIssues, MaxIssues), f \in FilesValues}
    \cup {ObjWith(v, JArr(<<>>)) : v \in {JNum(5), JStr(<<"n","o","n","e">>), JNull, JObj(<<>>)}}
    \cup {JObj([filesReviewed |-> JArr(<<JStr(<<"a.ts">>)>>)])}

\* severity and category vocabulary an agent may write, in several casings
SeverityWords ==
    { <<"H","I","G","H">>, <<"h","i","g","h">>, <<"H","i","g","h">>,
       <<"C","R","I","T","I","C","A","L">>,
       <<"c","r","i","t","i","c","a","l">>,
       <<"C","r","i","t","i","c","a","l">>, <<"M","E","D","I","U","M">>,
       <<"m","e","d","i","u","m">>, <<"M","e","d","i","u","m">>,
       <<"E","R","R","O","R">>, <<"e","r","r","o","r">>,
       <<"E","r","r","o","r">>, <<"L","O","W">>, <<"l","o","w">>,
       <<"L","o","w">>, <<"W","A","R","N","I","N","G">>,
       <<"w","a","r","n","i","n","g">>, <<"W","a","r","n","i","n","g">>,
       <<"I","N","F","O">>, <<"i","n","f","o">>, <<"I","n","f","o">>,
       <<"b","l","o","c","k","e","r">>, <<"M","A","J","O","R">>,
       <<" ","H","I","G","H">>, <<"H","I","G","H","E","R">>, <<>> }

CategoryWords ==
    { <<"S","e","c","u","r","i","t","y">>,
       <<"P","E","R","F","O","R","M","A","N","C","E">>, <<"b","u","g">>,
       <<"B","u","g","s">>,
       <<"m","a","i","n","t","a","i","n","a","b","i","l","i","t","y">>,
       <<"M","a","i","n","t","a","i","n","a","b","l","e">>,
       <<"d","o","c","u","m","e","n","t","a","t","i","o","n">>,
       <<"D","o","c","s">>, <<"s","t","y","l","e">>,
       <<"C","o","d","e"," ","S","t","y","l","e">>,
       <<"s","e","c","u","r","i","t","y"," ","a","n","d"," ","p","e","r","f","o","r","m","a","n","c","e">>,
       <<"p","e","r","f","o","r","m","a","n","c","e"," ","s","e","c","u","r","i","t","y">>,
       <<"b","u","g"," ","i","n"," ","d","o","c","s">>,
       <<"s","t","y","l","e",","," ","m","a","i","n","t","a","i","n","a","b","i","l","i","t","y">>,
       <<"b","e","s","t","-","p","r","a","c","t","i","c","e","s">>,
       <<"o","t","h","e","r">>, <<>> }

\* a finding that carries the given severity and category, or neither key
IssueWith(sev, cat) ==
    JObj(Spread(IF IsDefined(sev) THEN OneKey("severity", JStr(sev[1])) ELSE <<>>,
                IF IsDefined(cat) THEN OneKey("category", JStr(cat[1])) ELSE <<>>))

ClassifyIssues ==
    {IssueWith(sev, cat) :
        sev \in {Undefined} \cup {Some(w) : w \in SeverityWords},
        cat \in {Undefined} \cup {Some(w) : w \in CategoryWords}}

\* findings that spell one concept under the first key, the second key or
\* both, with an empty or null value among them
AliasPairs == {<<"file", "filePath">>, <<"description", "message">>,
               <<"recommendation", "suggestion">>}
AliasIssues ==
    {JObj(Spread(IF IsDefined(a) THEN OneKey(pr[1], a[1]) ELSE <<>>,
                 IF IsDefined(b) THEN OneKey(pr[2], b[1]) ELSE <<>>)) :
        pr \in AliasPairs,
        a \in {Undefined, Some(JStr(<<>>)), Some(JNull), Some(JStr(<<"a.ts">>))},
        b \in {Undefined, Some(JStr(<<>>)), Some(JStr(<<"b.ts">>))}}

ParseTexts ==
    {[toks |-> t, obj |-> o] : t \in SeqsUpTo(Tokens, MaxTokens), o \in {EmptyObject, ObjA}}
    \cup {[toks |-> t, obj |-> o] : t \in {<<"J">>, <<"p", "J", "p">>}, o \in RichObjects}
    \cup {[toks |-> <<"J">>, obj |-> ObjWith(JArr(<<x>>), JArr(<<>>))] : x \in ClassifyIssues}
    \cup {[toks |-> <<"J">>, obj |-> ObjWith(JArr(<<x>>), JArr(<<>>))] : x \in AliasIssues}

----------------------------------------------------------------------------
(* Actions                                                                 *)

\* new CodeReviewAgent(userConfig): buildConfig, then validateConfig
Construct ==
    /\ impl \in AgentImpls
    /\ ctor = "pending"
    /\ LET cfg == buildConfig(userConfig)
           err == validateConfig(cfg, envApiKey)
       IN /\ config' = Some(cfg)
          /\ ctorError' = err
          /\ ctor' = IF err = "" THEN "ok" ELSE "threw"
    /\ UNCHANGED <<envApiKey, impl, userConfig>>
    /\ UNCHANGED reviewVars
    /\ UNCHANGED fnVars
    /\ UNCHANGED hostVars
    /\ UNCHANGED concurrentVars

\* review(): from the call up to the first await of the for-await loop.
\* part_005 first fills this.config.prContext from git when it is absent.
StartReview ==
    /\ impl \in AgentImpls
    /\ ctor = "ok"
    /\ pc \in {"idle", "returned", "thrown"}
    /\ nReviews < MaxReviews
    /\ exitCode = <<>>
    /\ \E git \in {Undefined, Some([changedFiles |-> Some(<<"g.ts">>)])} :
         LET cfg == IF /\ impl = "part_005"
                       /\ ~TruthyObj(Get(config[1], "prContext"))
                       /\ TruthyStr(Get(config[1], "cwd"))
                       /\ IsDefined(git)
                    THEN Spread(config[1], [prContext |-> git])
                    ELSE config[1]
         IN /\ impl # "part_005" => git = Undefined
            /\ config' = Some(cfg)
            /\ prompt' = Some(PromptFor(impl, cfg))
            /\ options' = Some(OptionsFor(impl, cfg))
    /\ nQueries' = nQueries + 1
    /\ nReviews' = nReviews + 1
    /\ resultText' = EmptyText
    /\ totalCostUsd' = 0
    /\ durationMs' = 0
    /\ nEvents' = 0
    /\ nResults' = 0
    /\ result' = <<>>
    /\ thrown' = <<>>
    /\ streamSessionId' = Undefined
    /\ lastEvent' = <<>>
    /\ pc' = "streaming"
    /\ UNCHANGED <<envApiKey, impl, userConfig, ctor, ctorError, sessionId>>
    /\ UNCHANGED fnVars
    /\ UNCHANGED hostVars
    /\ UNCHANGED concurrentVars

\* review.ts reviewCode(): builds its prompt and calls query() directly
ReviewCode ==
    /\ impl = "review.ts"
    /\ pc = "idle"
    /\ prompt' = Some(ScriptPrompt)
    /\ options' = Some(reviewCodeOptions)
    /\ nQueries' = nQueries + 1
    /\ pc' = "streaming"
    /\ UNCHANGED agentVars
    /\ UNCHANGED <<sessionId, resultText, totalCostUsd, durationMs, nEvents,
                   nResults, result, nReviews, thrown, streamSessionId, lastEvent>>
    /\ UNCHANGED fnVars
    /\ UNCHANGED hostVars
    /\ UNCHANGED concurrentVars

\* a loop body that clears what it captured when an event lacks the field
OnMessageResetsOnAbsent ==
    /\ impl = "code-reviewer"
    /\ pc = "streaming"
    /\ nEvents < MaxEvents
    /\ \E message \in Messages :
         /\ sessionId' = IF message.type = "system"
                         THEN (IF "session_id" \in DOMAIN message
                               THEN Some(message.session_id) ELSE Undefined)
                         ELSE sessionId
         /\ resultText' = IF message.type = "result"
                          THEN (IF "result" \in DOMAIN message
                                THEN message.result ELSE EmptyText)
                          ELSE resultText
         /\ totalCostUsd' = IF message.type = "result"
                            THEN (IF "total_cost_usd" \in DOMAIN message
                                  THEN message.total_cost_usd ELSE 0)
                            ELSE totalCostUsd
         /\ durationMs' = IF message.type = "result"
                          THEN (IF "duration_ms" \in DOMAIN message
                                THEN message.duration_ms ELSE 0)
                          ELSE durationMs
         /\ nResults' = IF message.type = "result" THEN nResults + 1 ELSE nResults
         /\ streamSessionId' =
               IF /\ message.type = "system" /\ "session_id" \in DOMAIN message
                  /\ ~IsDefined(streamSessionId)
               THEN Some(message.session_id) ELSE streamSessionId
         /\ lastEvent' = Some([type |-> message.type, keys |-> DOMAIN message])
    /\ nEvents' = nEvents + 1
    /\ UNCHANGED agentVars
    /\ UNCHANGED <<pc, prompt, options, nQueries, result, nReviews, thrown>>
    /\ UNCHANGED fnVars
    /\ UNCHANGED hostVars
    /\ UNCHANGED concurrentVars

\* one iteration of the for-await loop of agents/code-reviewer.ts
OnMessage ==
    /\ impl = "code-reviewer"
    /\ pc = "streaming"
    /\ nEvents < MaxEvents
    /\ \E message \in Messages :
         /\ sessionId' = IF message.type = "system" /\ "session_id" \in DOMAIN message
                         THEN Some(message.session_id) ELSE sessionId
         /\ resultText' = IF message.type = "result" /\ "result" \in DOMAIN message
                          THEN message.result ELSE resultText
         /\ totalCostUsd' = IF message.type = "result" /\ "total_cost_usd" \in DOMAIN message
                            THEN message.total_cost_usd ELSE totalCostUsd
         /\ durationMs' = IF message.type = "result" /\ "duration_ms" \in DOMAIN message
                          THEN message.duration_ms ELSE durationMs
         /\ nResults' = IF message.type = "result" THEN nResults + 1 ELSE nResults
         /\ streamSessionId' =
               IF /\ message.type = "system" /\ "session_id" \in DOMAIN message
                  /\ ~IsDefined(streamSessionId)
               THEN Some(message.session_id) ELSE streamSessionId
         /\ lastEvent' = Some([type |-> message.type, keys |-> DOMAIN message])
    /\ nEvents' = nEvents + 1
    /\ UNCHANGED agentVars
    /\ UNCHANGED <<pc, prompt, options, nQueries, result, nReviews, thrown>>
    /\ UNCHANGED fnVars
    /\ UNCHANGED hostVars
    /\ UNCHANGED concurrentVars

\* the outcome of review() becomes visible to its caller
Complete(out) ==
    /\ pc' = IF out.kind = "return" THEN "returned" ELSE "thrown"
    /\ result' = IF out.kind = "return" THEN Some(out.value) ELSE <<>>
    /\ thrown' = IF out.kind = "return" THEN <<>> ELSE Some(out.error)

\* the stream ends: the loop exits and the result is built
StreamEnd ==
    /\ impl = "code-reviewer"
    /\ pc = "streaming"
    /\ Complete(AfterLoop(config[1], sessionId, resultText, totalCostUsd, durationMs))
    /\ UNCHANGED agentVars
    /\ UNCHANGED <<sessionId, prompt, options, nQueries, resultText, totalCostUsd,
                   durationMs, nEvents, nResults, nReviews, streamSessionId,
                   lastEvent>>
    /\ UNCHANGED fnVars
    /\ UNCHANGED hostVars
    /\ UNCHANGED concurrentVars

\* the stream throws (network failure, abort): the await rejects inside the
\* try block and control reaches the catch block
StreamThrows ==
    /\ impl = "code-reviewer"
    /\ pc = "streaming"
    /\ Complete(reviewCatch(config[1], sessionId, "AgentError"))
    /\ UNCHANGED agentVars
    /\ UNCHANGED <<sessionId, prompt, options, nQueries, resultText, totalCostUsd,
                   durationMs, nEvents, nResults, nReviews, streamSessionId,
                   lastEvent>>
    /\ UNCHANGED fnVars
    /\ UNCHANGED hostVars
    /\ UNCHANGED concurrentVars

\* the normaliser applied to a text
FnParse ==
    /\ fnParsed = <<>>
    /\ fnParsed' = Some(parseResults(fnText))
    /\ UNCHANGED <<fnText, fnStatus, fnCounts, fnStats004, fnFiltered, fnMerged>>
    /\ UNCHANGED agentVars
    /\ UNCHANGED reviewVars
    /\ UNCHANGED hostVars
    /\ UNCHANGED concurrentVars

\* the status engine applied to the normalised issues
FnStatus ==
    /\ fnParsed # <<>>
    /\ fnParsed[1].kind = "return"
    /\ fnStatus = <<>>
    /\ fnStatus' = Some(determineStatus(fnParsed[1].value.issues))
    /\ UNCHANGED <<fnText, fnParsed, fnCounts, fnStats004, fnFiltered, fnMerged>>
    /\ UNCHANGED agentVars
    /\ UNCHANGED reviewVars
    /\ UNCHANGED hostVars
    /\ UNCHANGED concurrentVars

\* an exit code that tolerates a partial status
exitCodeLenient(status) == IF status = "failure" THEN 1 ELSE 0

\* cli.ts: result.status === 'success' ? 0 : 1
exitCodeFor(status) == IF status = "success" THEN 0 ELSE 1

\* cli.ts, the review command after `await agent.review(target)` or after
\* the constructor or review() raised: format the report, write it, and
\* exit.  Formatting or writing (fs.writeFileSync) may raise, and the catch
\* block exits with 1.
CliExit ==
    /\ impl = "code-reviewer"
    /\ exitCode = <<>>
    /\ \/ /\ ctor = "threw" \/ pc = "thrown"
          /\ exitCode' = Some(1)
          /\ outputError' = FALSE
       \/ /\ pc = "returned"
          /\ \E writeFails \in BOOLEAN :
               /\ outputError' = writeFails
               /\ exitCode' = IF writeFails THEN Some(1)
                              ELSE Some(exitCodeFor(result[1].status))
    /\ UNCHANGED action
    /\ UNCHANGED agentVars
    /\ UNCHANGED reviewVars
    /\ UNCHANGED fnVars
    /\ UNCHANGED concurrentVars

----------------------------------------------------------------------------
(* Concurrent review() invocations.  Each invocation has its own locals;    *)
(* this.sessionId belongs to the agent instance the invocation runs on.     *)

Agents == {"a1", "a2"}

\* what the stream of invocation i carries
SidOf(i) == IF i = 1 THEN "s1" ELSE "s2"
TextOf(i) ==
    IF i = 1 THEN [toks |-> <<"p", "J", "p">>, obj |-> ObjA]
    ELSE [toks |-> <<"J">>, obj |-> ObjWith(JArr(<<IssueError, IssueLow>>), JArr(<<>>))]
CostOf(i) == 3 * i
DurationOf(i) == 7 * i

CallMessages(i) ==
    { [type |-> "system", session_id |-> SidOf(i)],
      [type |-> "assistant"],
      [type |-> "result", result |-> TextOf(i), total_cost_usd |-> CostOf(i),
       duration_ms |-> DurationOf(i)] }

IdleCall(agent) ==
    [agent |-> agent, pc |-> "idle", resultText |-> EmptyText, totalCostUsd |-> 0,
     durationMs |-> 0, nEvents |-> 0, ownSessionId |-> Undefined, result |-> <<>>]

\* review() of invocation i up to the first await
CallStart(i) ==
    /\ ctor = "ok"
    /\ calls[i].pc = "idle"
    /\ calls' = [calls EXCEPT ![i].pc = "streaming"]
    /\ UNCHANGED agentSessionIds

\* one iteration of the for-await loop of invocation i; ownSessionId
\* records the session_id its own stream carried
CallMessage(i) ==
    /\ calls[i].pc = "streaming"
    /\ calls[i].nEvents < MaxEvents
    /\ \E message \in CallMessages(i) :
         /\ agentSessionIds' =
               IF message.type = "system" /\ "session_id" \in DOMAIN message
               THEN [agentSessionIds EXCEPT ![calls[i].agent] = Some(message.session_id)]
               ELSE agentSessionIds
         /\ calls' = [calls EXCEPT
               ![i].nEvents = @ + 1,
               ![i].ownSessionId =
                   IF message.type = "system" /\ "session_id" \in DOMAIN message
                   THEN Some(message.session_id) ELSE @,
               ![i].resultText =
                   IF message.type = "result" /\ "result" \in DOMAIN message
                   THEN message.result ELSE @,
               ![i].totalCostUsd =
                   IF message.type = "result" /\ "total_cost_usd" \in DOMAIN message
                   THEN message.total_cost_usd ELSE @,
               ![i].durationMs =
                   IF message.type = "result" /\ "duration_ms" \in DOMAIN message
                   THEN message.duration_ms ELSE @]

\* the stream of invocation i ends and its result is built
CallEnd(i) ==
    /\ calls[i].pc = "streaming"
    /\ LET out == AfterLoop(config[1], agentSessionIds[calls[i].agent],
                            calls[i].resultText, calls[i].totalCostUsd,
                            calls[i].durationMs)
       IN calls' = [calls EXCEPT
             ![i].pc = IF out.kind = "return" THEN "returned" ELSE "thrown",
             ![i].result = IF out.kind = "return" THEN Some(out.value) ELSE <<>>]
    /\ UNCHANGED agentSessionIds

ConcurrentReview ==
    /\ \E i \in DOMAIN calls : CallStart(i) \/ CallMessage(i) \/ CallEnd(i)
    /\ UNCHANGED agentVars
    /\ UNCHANGED reviewVars
    /\ UNCHANGED fnVars
    /\ UNCHANGED hostVars

\* countByCategory applied to the normalised issues, after the status
FnCount ==
    /\ fnStatus # <<>>
    /\ fnCounts = <<>>
    /\ fnCounts' = Some(countByCategory(fnParsed[1].value.issues))
    /\ UNCHANGED <<fnText, fnParsed, fnStatus, fnStats004, fnFiltered, fnMerged>>
    /\ UNCHANGED agentVars
    /\ UNCHANGED reviewVars
    /\ UNCHANGED hostVars
    /\ UNCHANGED concurrentVars

\* the same terminal text handled by the agent of part_004
FnStats004 ==
    /\ fnParsed = <<>>
    /\ fnStats004 = <<>>
    /\ fnStats004' = Some(AfterLoop004(fnText, 0, 0))
    /\ UNCHANGED <<fnText, fnParsed, fnStatus, fnCounts, fnFiltered, fnMerged>>
    /\ UNCHANGED agentVars
    /\ UNCHANGED reviewVars
    /\ UNCHANGED hostVars
    /\ UNCHANGED concurrentVars

\* filterIssuesBySeverity applied to the normalised issues by two agents
\* whose configurations differ in the threshold only
FnFilter ==
    /\ fnParsed # <<>>
    /\ fnFiltered = <<>>
    /\ \E t1 \in Range(severityLevels), t2 \in Range(severityLevels) :
         fnFiltered' =
            Some([t1 |-> t1, t2 |-> t2,
                  at1 |-> filterIssuesBySeverity(
                              buildConfig(OneKey("severityThreshold", Some(t1))),
                              fnParsed[1].value.issues),
                  at2 |-> filterIssuesBySeverity(
                              buildConfig(OneKey("severityThreshold", Some(t2))),
                              fnParsed[1].value.issues)])
    /\ UNCHANGED <<fnText, fnParsed, fnStatus, fnCounts, fnStats004, fnMerged>>
    /\ UNCHANGED agentVars
    /\ UNCHANGED reviewVars
    /\ UNCHANGED hostVars
    /\ UNCHANGED concurrentVars

----------------------------------------------------------------------------
(* Specifications                                                          *)

\* the orders in which a list may be handed over
Reordered(list) ==
    {[i \in DOMAIN list |-> list[f[i]]] : f \in Permutations(DOMAIN list)}
Reversed(list) == [i \in DOMAIN list |-> list[Len(list) + 1 - i]]

\* mergeRules applied to the caller's rules in some order, over the default
\* rules in source order or reversed
FnMerge ==
    /\ ctor = "ok"
    /\ \E user \in Reordered(userConfig["rules"][1]),
          defaults \in {DEFAULT_RULES, Reversed(DEFAULT_RULES)} :
         fnMerged' = Some([user |-> user,
                           defaultsReversed |-> defaults # DEFAULT_RULES,
                           rules |-> mergeRules(defaults, user)])
    /\ UNCHANGED <<fnText, fnParsed, fnStatus, fnCounts, fnStats004, fnFiltered>>
    /\ UNCHANGED agentVars
    /\ UNCHANGED reviewVars
    /\ UNCHANGED hostVars
    /\ UNCHANGED concurrentVars

----------------------------------------------------------------------------
(* The GitHub Action entry points: action-entry.ts and part_006.  `action`  *)
(* holds one run(): its inputs, its position, and what it did.              *)

ActionEntries == {"action-entry", "part_006"}

\* what agent.review() gives the action: the counts of its result
ReviewOutcomes == {[critical |-> c, error |-> e, warning |-> w] : c, e, w \in {0, 1}}

\* the file lists pulls.listFiles may return
FileLists == {<<>>, <<"a.ts">>, <<"a.ts", "b.ts">>}

ActionRuns ==
    {[entry |-> en, apiKey |-> k, pr |-> hasPr, token |-> t, failOn |-> f,
      failOnCritical |-> fc, failOnError |-> fe, pc |-> "start",
      fetchFailed |-> FALSE, warned |-> FALSE, failedBy |-> "", rethrown |-> FALSE,
      prContext |-> Undefined, reviewRan |-> FALSE, review |-> Undefined] :
        en \in ActionEntries, k \in BOOLEAN, hasPr \in BOOLEAN, t \in BOOLEAN,
        f \in {"critical", "error", "warning"}, fc \in BOOLEAN, fe \in BOOLEAN}

\* the outer catch block: core.setFailed, and action-entry.ts rethrows
ActionCatch(a, cause) ==
    [a EXCEPT !.pc = "done", !.failedBy = cause,
              !.rethrown = (a.entry = "action-entry")]

ActionStep(a) ==
    /\ action' = a
    /\ UNCHANGED <<exitCode, outputError>>
    /\ UNCHANGED agentVars
    /\ UNCHANGED reviewVars
    /\ UNCHANGED fnVars
    /\ UNCHANGED concurrentVars

\* run() up to its first request to the hosting API
ActionBegin ==
    /\ action # <<>>
    /\ action.pc = "start"
    /\ ActionStep(
         IF action.entry = "action-entry"
         THEN IF ~action.apiKey \/ ~action.pr
              THEN [action EXCEPT !.pc = "done", !.failedBy = "precondition"]
              ELSE IF ~action.token THEN ActionCatch(action, "input")
              ELSE [action EXCEPT !.pc = "getPr"]
         ELSE IF ~action.apiKey THEN ActionCatch(action, "input")
              ELSE IF action.pr /\ action.token THEN [action EXCEPT !.pc = "listFiles"]
              ELSE IF action.pr
              THEN [action EXCEPT !.pc = "review",
                        !.prContext = Some([changedFiles |-> <<>>, fileDiffs |-> Some(<<>>)])]
              ELSE [action EXCEPT !.pc = "review"])

\* action-entry.ts: await octokit.rest.pulls.get
ActionGetPr ==
    /\ action # <<>>
    /\ action.pc = "getPr"
    /\ \E ok \in BOOLEAN :
         ActionStep(IF ok THEN [action EXCEPT !.pc = "listFiles"]
                    ELSE ActionCatch([action EXCEPT !.fetchFailed = TRUE], "fetch"))

\* await octokit.rest.pulls.listFiles: part_006 wraps it in its own try
ActionListFiles ==
    /\ action # <<>>
    /\ action.pc = "listFiles"
    /\ \E ok \in BOOLEAN, files \in FileLists :
         ActionStep(
           IF ok
           THEN [action EXCEPT !.pc = "review",
                     !.prContext =
                        Some(IF action.entry = "action-entry"
                             THEN [changedFiles |-> files]
                             ELSE [changedFiles |-> files, fileDiffs |-> Some(files)])]
           ELSE IF action.entry = "action-entry"
           THEN ActionCatch([action EXCEPT !.fetchFailed = TRUE], "fetch")
           ELSE [action EXCEPT !.pc = "review", !.fetchFailed = TRUE, !.warned = TRUE,
                     !.prContext = Some([changedFiles |-> <<>>, fileDiffs |-> Some(<<>>)])])

\* new CodeReviewAgent(config) and await agent.review(): a result or an error
ActionReview ==
    /\ action # <<>>
    /\ action.pc = "review"
    /\ \E ok \in BOOLEAN, out \in ReviewOutcomes :
         ActionStep(
           IF ok THEN [action EXCEPT !.pc = "report", !.reviewRan = TRUE,
                           !.review = Some(out)]
           ELSE ActionCatch([action EXCEPT !.reviewRan = TRUE], "review"))

\* the failure decision of each entry point from the counts of the result
ShouldFail(a) ==
    LET r == a.review[1]
    IN IF a.entry = "action-entry"
       THEN \/ a.failOn = "critical" /\ r.critical > 0
            \/ a.failOn = "error" /\ (r.critical > 0 \/ r.error > 0)
            \/ a.failOn = "warning" /\ r.critical + r.error + r.warning > 0
       ELSE \/ a.failOnCritical /\ r.critical > 0
            \/ a.failOnError /\ r.error > 0

\* the report, the PR comment, the outputs and the failure decision
ActionReport ==
    /\ action # <<>>
    /\ action.pc = "report"
    /\ \E ok \in BOOLEAN :
         ActionStep(
           IF ~ok THEN ActionCatch(action, "report")
           ELSE [action EXCEPT !.pc = "done",
                     !.failedBy = IF ShouldFail(action) THEN "findings" ELSE ""])

InitReview ==
    /\ sessionId = Undefined
    /\ pc = "idle"
    /\ prompt = <<>>
    /\ options = <<>>
    /\ nQueries = 0
    /\ resultText = EmptyText
    /\ totalCostUsd = 0
    /\ durationMs = 0
    /\ nEvents = 0
    /\ nResults = 0
    /\ result = <<>>
    /\ nReviews = 0
    /\ thrown = <<>>
    /\ streamSessionId = Undefined
    /\ lastEvent = <<>>
    /\ exitCode = <<>>
    /\ outputError = FALSE

InitAgent(impls, configs) ==
    /\ envApiKey \in ApiKeys
    /\ impl \in impls
    /\ userConfig \in configs
    /\ impl = "review.ts" => userConfig = EmptyConfig
    /\ ctor = "pending"
    /\ ctorError = ""
    /\ config = <<>>

\* the invocations that will run concurrently and the agent each runs on
InitCalls(assignments) ==
    /\ calls \in {[i \in DOMAIN f |-> IdleCall(f[i])] : f \in assignments}
    /\ agentSessionIds = [a \in Agents |-> Undefined]

InitFn(texts) ==
    /\ fnText \in texts
    /\ fnParsed = <<>>
    /\ fnStatus = <<>>
    /\ fnCounts = <<>>
    /\ fnStats004 = <<>>
    /\ fnFiltered = <<>>
    /\ fnMerged = <<>>

\* the review pipeline of agents/code-reviewer.ts
Init ==
    /\ InitAgent({"code-reviewer"}, PipelineConfigs)
    /\ InitReview
    /\ InitFn({EmptyText})
    /\ InitCalls({<<>>})
    /\ action = <<>>

Next == Construct \/ StartReview \/ OnMessage \/ StreamEnd \/ StreamThrows \/ CliExit

Spec == Init /\ [][Next]_vars

\* configuration resolution and session start of every entry point
InitConfig ==
    /\ InitAgent(Impls, UserConfigs)
    /\ InitReview
    /\ InitFn({EmptyText})
    /\ InitCalls({<<>>})
    /\ action = <<>>

NextConfig == Construct \/ StartReview \/ ReviewCode

SpecConfig == InitConfig /\ [][NextConfig]_vars

\* the normaliser and the status engine as functions of the terminal text
InitParse ==
    /\ envApiKey = Some("sk-key")
    /\ impl = "code-reviewer"
    /\ userConfig = EmptyConfig
    /\ ctor = "pending"
    /\ ctorError = ""
    /\ config = <<>>
    /\ InitReview
    /\ InitFn(ParseTexts)
    /\ InitCalls({<<>>})
    /\ action = <<>>

NextParse == FnParse \/ FnStatus \/ FnCount \/ FnStats004

SpecParse == InitParse /\ [][NextParse]_vars

\* the threshold filter as a function of the normalised issues
FilterIssues == {IssueA, IssueError, IssueLow, IssueInfo}

FilterTexts ==
    {[toks |-> <<"J">>, obj |-> ObjWith(JArr(x), JArr(<<>>))] :
        x \in SeqsUpTo(FilterIssues, MaxIssues)}

InitFilter ==
    /\ envApiKey = Some("sk-key")
    /\ impl = "code-reviewer"
    /\ userConfig = EmptyConfig
    /\ ctor = "pending"
    /\ ctorError = ""
    /\ config = <<>>
    /\ InitReview
    /\ InitFn(FilterTexts)
    /\ InitCalls({<<>>})
    /\ action = <<>>

NextFilter == FnParse \/ FnFilter

SpecFilter == InitFilter /\ [][NextFilter]_vars

\* two review() invocations that interleave at their await points, on one
\* agent instance or on two
InitConcurrent ==
    /\ InitAgent({"code-reviewer"}, {EmptyConfig, OneKey("severityThreshold", Some("error"))})
    /\ InitReview
    /\ InitFn({EmptyText})
    /\ InitCalls({<<"a1", "a1">>, <<"a1", "a2">>})
    /\ action = <<>>

NextConcurrent == Construct \/ ConcurrentReview

SpecConcurrent == InitConcurrent /\ [][NextConcurrent]_vars

\* rule merging under every order of the caller's rule list
InitMerge ==
    /\ envApiKey = Some("sk-key")
    /\ impl = "code-reviewer"
    /\ userConfig \in {OneKey("rules", Some(list)) :
                          list \in SeqsUpTo(UserRuleCandidates, MaxUserRules)}
    /\ ctor = "pending"
    /\ ctorError = ""
    /\ config = <<>>
    /\ InitReview
    /\ InitFn({EmptyText})
    /\ InitCalls({<<>>})
    /\ action = <<>>

NextMerge == Construct \/ FnMerge

SpecMerge == InitMerge /\ [][NextMerge]_vars

\* one run of a GitHub Action entry point
InitAction ==
    /\ envApiKey = Some("sk-key")
    /\ impl = "code-reviewer"
    /\ userConfig = EmptyConfig
    /\ ctor = "pending"
    /\ ctorError = ""
    /\ config = <<>>
    /\ InitReview
    /\ InitFn({EmptyText})
    /\ InitCalls({<<>>})
    /\ action \in ActionRuns
    /\ action.entry = "action-entry" => ~action.failOnCritical /\ ~action.failOnError
    /\ action.entry = "part_006" => action.failOn = "critical"

NextAction == ActionBegin \/ ActionGetPr \/ ActionListFiles \/ ActionReview \/ ActionReport

SpecAction == InitAction /\ [][NextAction]_vars

\* the prompt of agents/code-reviewer.ts for pull requests with file diffs
InitDiffs ==
    /\ envApiKey = Some("sk-key")
    /\ impl = "code-reviewer"
    /\ userConfig \in DiffConfigs
    /\ ctor = "pending"
    /\ ctorError = ""
    /\ config = <<>>
    /\ InitReview
    /\ InitFn({EmptyText})
    /\ InitCalls({<<>>})
    /\ action = <<>>

NextDiffs == Construct \/ StartReview

SpecDiffs == InitDiffs /\ [][NextDiffs]_vars

----------------------------------------------------------------------------
(* Properties                                                              *)

ReadOnlyTools == {"Read", "Glob", "Grep"}
RequiredKeys == {"maxFiles", "maxBudgetUsd", "model", "includePatterns",
                 "excludePatterns", "cwd", "verbose", "severityThreshold", "rules"}

\* the caller supplied a non-positive maxFiles or maxBudgetUsd
NonPositiveBound(uc) ==
    \/ IsDefined(Get(uc, "maxFiles")) /\ uc["maxFiles"][1] <= 0
    \/ IsDefined(Get(uc, "maxBudgetUsd")) /\ uc["maxBudgetUsd"][1] <= 0

\* C1: constructing an agent with maxFiles <= 0 or maxBudgetUsd <= 0 (zero
\* included) raises a validation error, and then no prompt is built and no
\* agent query is started.
C1_NonPositiveBoundRejected ==
    (ctor # "pending" /\ NonPositiveBound(userConfig))
        => (ctor = "threw" /\ ctorError # "" /\ prompt = <<>> /\ nQueries = 0)

\* C2: without the API credential the constructor fails with an error, and
\* a prompt or an agent query exists only for an agent that was constructed
\* with the credential present.
C2_CredentialBeforePrompt ==
    /\ (ctor # "pending" /\ ~TruthyStr(envApiKey))
          => (ctor = "threw" /\ ctorError # "" /\ prompt = <<>> /\ options = <<>>)
    /\ (prompt # <<>> \/ options # <<>> \/ nQueries > 0)
          => (ctor = "ok" /\ TruthyStr(envApiKey))

C2_Witness ==
    /\ ~TruthyStr(envApiKey)
    /\ ctor = "threw"
    /\ ctorError = "ANTHROPIC_API_KEY environment variable is required"
    /\ nQueries = 0

\* C3: every agent session is started with the allowed-capability list
\* {Read, Glob, Grep}; no write-class or execute-class capability is passed.
C3_InspectionToolsOnly ==
    options # <<>> => Range(options[1].allowedTools) = ReadOnlyTools

\* the rule in force for an id: the last user rule with that id, else the
\* default rule
UserRulesOf(uc) == IF TruthyObj(Get(uc, "rules")) THEN uc["rules"][1] ELSE <<>>
IdsOf(rules) == {rules[i].id : i \in DOMAIN rules}
LastWithId(rules, id) ==
    rules[CHOOSE i \in DOMAIN rules :
            rules[i].id = id /\ \A j \in DOMAIN rules : rules[j].id = id => j <= i]
RuleInForce(uc, id) ==
    IF id \in IdsOf(UserRulesOf(uc)) THEN LastWithId(UserRulesOf(uc), id)
    ELSE LastWithId(DEFAULT_RULES, id)
ExpectedRules(uc) ==
    {r \in {RuleInForce(uc, id) : id \in IdsOf(DEFAULT_RULES) \cup IdsOf(UserRulesOf(uc))} :
        r.enabled}

\* C4: the resolved rules are exactly the enabled values of the id-keyed map
\* (defaults, overridden or extended by whole user rules), one per id; the
\* prompt renders exactly these, so an id the user disabled is absent.
C4_RuleResolution ==
    /\ config # <<>> =>
          /\ IsDefined(Get(config[1], "rules"))
          /\ Range(config[1]["rules"][1]) = ExpectedRules(userConfig)
          /\ Len(config[1]["rules"][1]) = Cardinality(ExpectedRules(userConfig))
    /\ (prompt # <<>> /\ impl \in AgentImpls) =>
          /\ Range(prompt[1].rules) = ExpectedRules(userConfig)
          /\ \A id \in IdsOf(UserRulesOf(userConfig)) :
                ~RuleInForce(userConfig, id).enabled => id \notin IdsOf(prompt[1].rules)

C4_Witness ==
    /\ prompt # <<>>
    /\ "security-xss" \in IdsOf(UserRulesOf(userConfig))
    /\ ~RuleInForce(userConfig, "security-xss").enabled
    /\ "security-xss" \notin IdsOf(prompt[1].rules)
    /\ "custom-react-hooks" \in IdsOf(prompt[1].rules)

\* the exclude patterns the caller supplied, none when the key is missing
UserExcludesOf(uc) ==
    IF IsDefined(Get(uc, "excludePatterns")) THEN uc["excludePatterns"][1] ELSE <<>>

\* C5: for every user configuration the resolved excludePatterns is the
\* baseline list followed by the user's patterns.
C5_ExcludesAdditive ==
    config # <<>> =>
        /\ IsDefined(Get(config[1], "excludePatterns"))
        /\ config[1]["excludePatterns"][1] = BASELINE_EXCLUDES \o UserExcludesOf(userConfig)

\* C6: buildConfig returns a configuration in which maxFiles, maxBudgetUsd,
\* model, includePatterns, excludePatterns, cwd, verbose, severityThreshold
\* and rules are all defined, whatever partial configuration it is given.
C6_FullyPopulated ==
    config # <<>> => \A k \in RequiredKeys : IsDefined(Get(config[1], k))

HasBrace(text) == \E i \in DOMAIN text.toks : text.toks[i] \in Opens \cup Closes

EmptyOutcome(r) ==
    /\ r.issues = <<>>
    /\ r.filesReviewed = JArr(<<>>)
    /\ r.stats.totalIssues = 0
    /\ r.status = "success"

\* C7: when the stream ends without a result message, review() returns a
\* result with no issues, no reviewed files, zero cost and duration and
\* status success, built from the empty text; a terminal text without any
\* brace gives the same issues, files and status.
C7_NoResultEvent ==
    /\ (pc \in {"returned", "thrown"} /\ nResults = 0 /\ thrown # Some("AgentError"))
          => /\ pc = "returned"
             /\ resultText = EmptyText
             /\ EmptyOutcome(result[1])
             /\ result[1].stats.totalCostUsd = 0
             /\ result[1].stats.durationMs = 0
    /\ (pc = "returned" /\ ~HasBrace(resultText)) => EmptyOutcome(result[1])

C7_Witness ==
    /\ pc = "returned"
    /\ nResults = 0
    /\ nEvents = 2
    /\ sessionId = Some("s1")
    /\ EmptyOutcome(result[1])

\* the brace span of the text is missing or is not JSON
Unparseable(text) ==
    \/ ~IsDefined(jsonMatch(text))
    \/ ~JsonParses(jsonMatch(text)[1])

\* C8: parseResults returns normally for every terminal text, and returns
\* no issues and no reviewed files whenever the brace span cannot be parsed.
C8_ParseNeverRaises ==
    fnParsed # <<>> =>
        /\ fnParsed[1].kind = "return"
        /\ Unparseable(fnText) =>
              /\ fnParsed[1].value.issues = <<>>
              /\ fnParsed[1].value.filesReviewed = JArr(<<>>)

C8_Witness ==
    /\ fnParsed # <<>>
    /\ fnText.toks = <<"{", "J", "}">>
    /\ fnParsed[1].kind = "return"
    /\ fnParsed[1].value.issues = <<>>

\* a finding with a numeric severity makes the map callback raise; the
\* normaliser still returns
C8_WitnessTypeError ==
    /\ fnParsed # <<>>
    /\ fnText.toks = <<"J">>
    /\ Prop(fnText.obj, "issues") = JArr(<<IssueA, IssueNumericSeverity>>)
    /\ fnParsed[1].kind = "return"

\* C9 as stated: a failing agent session is not fatal, review() returns a
\* result with no issues and status success.
C9_SessionFailureNonFatal ==
    [][StreamThrows =>
        /\ pc' = "returned"
        /\ result' # <<>>
        /\ result'[1].issues = <<>>
        /\ result'[1].status = "success"]_vars

\* C9 amended: a failing agent session makes review() rethrow the error to
\* its caller, and no result is returned.
C9_SessionFailureRethrown ==
    [][StreamThrows =>
        /\ pc' = "thrown"
        /\ thrown' = Some("AgentError")
        /\ result' = <<>>]_vars

C9_Witness ==
    /\ pc = "thrown"
    /\ thrown = Some("AgentError")
    /\ nEvents > 0
    /\ result = <<>>

SeveritiesOf(issues) == {issues[i].severity : i \in DOMAIN issues}

\* C10: status is failure iff some issue is critical, partial iff none is
\* critical and some is error, success iff every issue is warning or info.
C10_StatusPrecedence ==
    fnStatus # <<>> =>
        LET sevs == SeveritiesOf(fnParsed[1].value.issues)
        IN /\ fnStatus[1] \in {"failure", "partial", "success"}
           /\ (fnStatus[1] = "failure") <=> ("critical" \in sevs)
           /\ (fnStatus[1] = "partial") <=> ("critical" \notin sevs /\ "error" \in sevs)
           /\ (fnStatus[1] = "success") <=> (sevs \subseteq {"warning", "info"})

C10_Witness ==
    /\ fnStatus = Some("failure")
    /\ Len(fnParsed[1].value.issues) = 3
    /\ SeveritiesOf(fnParsed[1].value.issues) = {"critical", "error", "warning"}

\* the order info < warning < error < critical
Rank == [info |-> 1, warning |-> 2, error |-> 3, critical |-> 4]

\* the issues a caller sees under a configuration: all of them when no
\* threshold is configured, else those ranked at or above the threshold
Visible(cfg, all) ==
    LET th == Get(cfg, "severityThreshold")
    IN IF ~IsDefined(th) THEN all
       ELSE SelectSeq(all, LAMBDA x : Rank[x.severity] >= Rank[th[1]])

\* the normalised issues of the terminal text the review ended with
AllIssues == parseResults(resultText).value.issues

\* C11: an issue of the normalised list appears in result.issues iff its
\* severity rank is at or above the rank of the configured threshold, in
\* the original order; without a threshold every issue is retained.
C11_ThresholdFilter ==
    pc = "returned" => result[1].issues = Visible(config[1], AllIssues)

C11_Witness ==
    /\ pc = "returned"
    /\ Get(config[1], "severityThreshold") = Some("error")
    /\ Len(AllIssues) = 2
    /\ Len(result[1].issues) = 1
    /\ result[1].issues[1].severity = "error"

CountWhere(all, field, v) == Cardinality({i \in DOMAIN all : all[i][field] = v})

\* C12: totalIssues, issuesBySeverity, issuesByCategory, the summary counts
\* and the status are computed over the full normalised list, and
\* result.issues is that list after threshold filtering.
C12_CountsOverFullList ==
    pc = "returned" =>
        LET r == result[1]
        IN /\ r.stats.totalIssues = Len(AllIssues)
           /\ \A s \in SEVERITIES :
                 r.stats.issuesBySeverity[s] = CountWhere(AllIssues, "severity", s)
           /\ \A c \in CATEGORIES :
                 r.stats.issuesByCategory[c] = CountWhere(AllIssues, "category", c)
           /\ r.summary.found = Len(AllIssues)
           /\ r.summary.critical = CountWhere(AllIssues, "severity", "critical")
           /\ r.summary.errors = CountWhere(AllIssues, "severity", "error")
           /\ r.summary.warnings = CountWhere(AllIssues, "severity", "warning")
           /\ (r.status = "failure") <=> (CountWhere(AllIssues, "severity", "critical") > 0)
           /\ (r.status = "success") <=>
                 (CountWhere(AllIssues, "severity", "critical")
                    + CountWhere(AllIssues, "severity", "error") = 0)
           /\ Len(r.issues) = Len(Visible(config[1], AllIssues))

C12_Witness ==
    /\ pc = "returned"
    /\ Get(config[1], "severityThreshold") = Some("critical")
    /\ result[1].issues = <<>>
    /\ result[1].stats.totalIssues = 2
    /\ result[1].stats.issuesBySeverity["error"] = 1
    /\ result[1].status = "partial"

\* two texts that differ at most in the case of their letters
SameLetter(x, y) ==
    \/ x = y
    \/ \E k \in DOMAIN LowerLetters : {x, y} = {LowerLetters[k], UpperLetters[k]}
EqualsIgnoreCase(a, b) ==
    /\ Len(a) = Len(b)
    /\ \A i \in DOMAIN a : SameLetter(a[i], b[i])
ContainsIgnoreCase(s, sub) ==
    \E i \in 1..(Len(s) - Len(sub) + 1) :
        EqualsIgnoreCase(SubSeq(s, i, i + Len(sub) - 1), sub)

\* the raw findings of the payload behind the normalised issues
RawIssuesOf(text) == Prop(text.obj, "issues").a

\* the text a raw finding carries under a key, <<>> when the key is absent
\* or holds no text
WordOf(issue, k) ==
    IF Prop(issue, k).t = "str" THEN Prop(issue, k).s ELSE <<>>

ExpectedSeverity(w) ==
    IF EqualsIgnoreCase(w, W_HIGH) \/ EqualsIgnoreCase(w, W_CRITICAL) THEN "critical"
    ELSE IF EqualsIgnoreCase(w, W_MEDIUM) \/ EqualsIgnoreCase(w, W_ERROR) THEN "error"
    ELSE IF EqualsIgnoreCase(w, W_LOW) \/ EqualsIgnoreCase(w, W_WARNING) THEN "warning"
    ELSE "info"

\* C13: every normalised issue carries one of the four canonical
\* severities: critical for HIGH or CRITICAL, error for MEDIUM or ERROR,
\* warning for LOW or WARNING in any casing, info for every other text and
\* for an absent severity.
C13_SeverityMapping ==
    (fnParsed # <<>> /\ fnParsed[1].kind = "return") =>
        LET issues == fnParsed[1].value.issues
        IN \A i \in DOMAIN issues :
              /\ issues[i].severity \in SEVERITIES
              /\ issues[i].severity
                    = ExpectedSeverity(WordOf(RawIssuesOf(fnText)[i], "severity"))

C13_Witness ==
    /\ fnParsed # <<>>
    /\ Len(fnParsed[1].value.issues) = 1
    /\ WordOf(RawIssuesOf(fnText)[1], "severity") = <<"W","a","r","n","i","n","g">>
    /\ fnParsed[1].value.issues[1].severity = "warning"

C13_WitnessOther ==
    /\ fnParsed # <<>>
    /\ Len(fnParsed[1].value.issues) = 1
    /\ WordOf(RawIssuesOf(fnText)[1], "severity") = <<"H","I","G","H","E","R">>
    /\ fnParsed[1].value.issues[1].severity = "info"

W_maintainability == << "m","a","i","n","t","a","i","n","a","b","i","l","i","t","y" >>
W_documentation == << "d","o","c","u","m","e","n","t","a","t","i","o","n" >>

\* the priority list read as the texts to search for
CategoryNames ==
    << [sub |-> W_security, cat |-> "security"],
       [sub |-> W_performance, cat |-> "performance"],
       [sub |-> W_bug, cat |-> "bugs"],
       [sub |-> W_maintainability, cat |-> "maintainability"],
       [sub |-> W_documentation, cat |-> "documentation"],
       [sub |-> W_style, cat |-> "style"] >>

\* the priority list with the stems that are searched for
CategoryStems ==
    << [sub |-> W_security, cat |-> "security"],
       [sub |-> W_performance, cat |-> "performance"],
       [sub |-> W_bug, cat |-> "bugs"],
       [sub |-> W_maintain, cat |-> "maintainability"],
       [sub |-> W_doc, cat |-> "documentation"],
       [sub |-> W_style, cat |-> "style"] >>

\* the category of the first entry of the list found in the text, ignoring
\* case; best-practices when none is found
FirstMatch(list, w) ==
    LET hits == {i \in DOMAIN list : ContainsIgnoreCase(w, list[i].sub)}
    IN IF hits = {} THEN "best-practices"
       ELSE list[CHOOSE i \in hits : \A j \in hits : i <= j].cat

CategoriesFollow(list) ==
    (fnParsed # <<>> /\ fnParsed[1].kind = "return") =>
        LET issues == fnParsed[1].value.issues
        IN \A i \in DOMAIN issues :
              issues[i].category
                = FirstMatch(list, WordOf(RawIssuesOf(fnText)[i], "category"))

\* C14 as stated: the category is that of the first of security,
\* performance, bug, maintainability, documentation, style contained in the
\* text, ignoring case, and best-practices when none is contained.
C14_CategoryByName == CategoriesFollow(CategoryNames)

\* C14 amended: the category is that of the first of the stems security,
\* performance, bug, maintain, doc, style contained in the text, ignoring
\* case; an empty, absent or unmatched category gives best-practices.
C14_CategoryByStem == CategoriesFollow(CategoryStems)

C14_Witness ==
    /\ fnParsed # <<>>
    /\ Len(fnParsed[1].value.issues) = 1
    /\ ContainsIgnoreCase(WordOf(RawIssuesOf(fnText)[1], "category"), W_security)
    /\ ContainsIgnoreCase(WordOf(RawIssuesOf(fnText)[1], "category"), W_performance)
    /\ Head(WordOf(RawIssuesOf(fnText)[1], "category")) = "p"
    /\ fnParsed[1].value.issues[1].category = "security"

C14_WitnessStem ==
    /\ fnParsed # <<>>
    /\ Len(fnParsed[1].value.issues) = 1
    /\ WordOf(RawIssuesOf(fnText)[1], "category") = <<"D","o","c","s">>
    /\ fnParsed[1].value.issues[1].category = "documentation"

\* C15: the per-category counters hold exactly the seven canonical
\* categories as keys, each with the number of issues of that category
\* (zero where none was found), whatever the findings are; in the agent of
\* agents/code-reviewer.ts and in the agent of part_004.
C15_CategoryKeysComplete ==
    /\ fnCounts # <<>> =>
          /\ DOMAIN fnCounts[1] = CATEGORIES
          /\ \A k \in CATEGORIES :
                fnCounts[1][k] = CountWhere(fnParsed[1].value.issues, "category", k)
    /\ (fnStats004 # <<>> /\ fnStats004[1].kind = "return") =>
          LET byCategory == fnStats004[1].value.issuesByCategory
          IN /\ DOMAIN byCategory.count = CATEGORIES
             /\ \A k \in CATEGORIES : byCategory.count[k] \in Nat
             /\ byCategory.extra = {}

\* C16: threshold monotonicity.  For every issue list and all
\* thresholds t1 <= t2, the list filtered at t2 is no longer than the list
\* filtered at t1 and consists of issues of that list.
C16_ThresholdMonotone ==
    (fnFiltered # <<>> /\ Rank[fnFiltered[1].t1] <= Rank[fnFiltered[1].t2]) =>
        /\ Len(fnFiltered[1].at2) <= Len(fnFiltered[1].at1)
        /\ fnFiltered[1].at2
              = SelectSeq(fnFiltered[1].at1,
                          LAMBDA x : Rank[x.severity] >= Rank[fnFiltered[1].t2])

C16_Witness ==
    /\ fnFiltered # <<>>
    /\ fnFiltered[1].t1 = "warning"
    /\ fnFiltered[1].t2 = "error"
    /\ Len(fnParsed[1].value.issues) = 3
    /\ Len(fnFiltered[1].at1) = 2
    /\ Len(fnFiltered[1].at2) = 1

\* C17: the result of each of two interleaved review() invocations reports
\* the session identifier, issues, cost and duration of its own stream
\* only, also when both run on one agent instance.
C17_ReviewsIsolated ==
    \A i \in DOMAIN calls :
        calls[i].pc = "returned" =>
            LET r == calls[i].result[1]
            IN /\ r.metadata.sessionId =
                     (IF IsDefined(calls[i].ownSessionId) THEN SidOf(i) ELSE "unknown")
               /\ r.stats.totalCostUsd \in {0, CostOf(i)}
               /\ r.stats.durationMs \in {0, DurationOf(i)}
               /\ r.stats.totalIssues \in {0, Len(parseResults(TextOf(i)).value.issues)}

\* C18 as stated: the CLI exits with 0 iff review() returned a result whose
\* status is success, and with 1 otherwise.
C18_ExitCodeByStatus ==
    exitCode # <<>> =>
        /\ exitCode[1] \in {0, 1}
        /\ (exitCode[1] = 0) <=> (pc = "returned" /\ result[1].status = "success")

\* C18 amended: the CLI exits with 0 iff review() returned a result whose
\* status is success and the report was formatted and written without an
\* error; it exits with 1 for failure, for partial, and for any error raised
\* by configuration, review, formatting or writing.
C18_ExitCodeByStatusAndOutput ==
    exitCode # <<>> =>
        /\ exitCode[1] \in {0, 1}
        /\ (exitCode[1] = 0)
              <=> (pc = "returned" /\ result[1].status = "success" /\ ~outputError)

C18_Witness ==
    /\ exitCode = Some(1)
    /\ pc = "returned"
    /\ result[1].status = "partial"
    /\ ~outputError

\* C19: the session identifier a review reports, and getSessionId after
\* it, is the one of the first system event of its stream that carries a
\* session_id.
C19_FirstSessionIdWins ==
    pc = "returned" =>
        /\ result[1].metadata.sessionId =
              (IF IsDefined(streamSessionId) THEN streamSessionId[1] ELSE "unknown")
        /\ sessionId = streamSessionId

\* C20: once a result event has been consumed, no later event of the same
\* stream changes the captured text, cost or duration.
C20_ResultEventFinal ==
    [][(OnMessage /\ nResults >= 1) =>
          /\ resultText' = resultText
          /\ totalCostUsd' = totalCostUsd
          /\ durationMs' = durationMs]_vars

\* C21: an event that lacks a field the loop reads is never an error: the
\* review keeps streaming with nothing thrown, a system event without
\* session_id leaves the stored session id as it was, a result event without
\* result, total_cost_usd or duration_ms leaves the value captured before,
\* and the end of the stream still makes review() return.
C21_MissingFieldsTolerated ==
    [][/\ OnMessage =>
            LET e == lastEvent'[1]
            IN /\ pc' = "streaming"
               /\ thrown' = <<>>
               /\ (e.type # "system" \/ "session_id" \notin e.keys)
                     => sessionId' = sessionId
               /\ (e.type # "result" \/ "result" \notin e.keys)
                     => resultText' = resultText
               /\ (e.type # "result" \/ "total_cost_usd" \notin e.keys)
                     => totalCostUsd' = totalCostUsd
               /\ (e.type # "result" \/ "duration_ms" \notin e.keys)
                     => durationMs' = durationMs
       /\ StreamEnd => (pc' = "returned" /\ IsDefined(result'))]_vars

C21_Witness ==
    /\ pc = "returned"
    /\ lastEvent = Some([type |-> "result", keys |-> {"type"}])
    /\ nResults = 2
    /\ resultText.toks = <<"p", "J", "p">>
    /\ totalCostUsd = 3
    /\ durationMs = 7
    /\ result[1].stats.totalCostUsd = 3

\* texts made of brace-free prose around one serialised object
ProseAroundObject == {<<"J">>, <<"p", "J">>, <<"J", "p">>, <<"p", "J", "p">>}

\* the payload is an object whose issues, when given, is a list of findings
\* the normaliser accepts
UsablePayload(obj) ==
    LET raw == Or(Prop(obj, "issues"), JArr(<<>>))
    IN raw.t = "arr" /\ \A i \in DOMAIN raw.a : ~IssueCallbackThrows(raw.a[i])

\* the tokens between the first opening and the last closing brace, both
\* included; <<>> when there is no such pair
BraceSpan(toks) ==
    IF \E i, j \in DOMAIN toks : i <= j /\ toks[i] \in Opens /\ toks[j] \in Closes
                                /\ (\A k \in 1..(i - 1) : toks[k] \notin Opens)
                                /\ (\A k \in (j + 1)..Len(toks) : toks[k] \notin Closes)
    THEN LET ij == CHOOSE ij \in (DOMAIN toks) \X (DOMAIN toks) :
                      /\ ij[1] <= ij[2]
                      /\ toks[ij[1]] \in Opens /\ toks[ij[2]] \in Closes
                      /\ (\A k \in 1..(ij[1] - 1) : toks[k] \notin Opens)
                      /\ (\A k \in (ij[2] + 1)..Len(toks) : toks[k] \notin Closes)
         IN SubSeq(toks, ij[1], ij[2])
    ELSE <<>>

\* C22: the JSON candidate is the span from the first '{' to the last '}'.
\* For brace-free prose around one object with a usable payload,
\* parseResults returns one normalised issue per finding of that object, in
\* order, and its filesReviewed; when the span holds anything more than the
\* object (a second object, a stray brace) the outcome is the empty one.
\* Scenario A (severity HIGH, file a.ts, no category) gives one issue of
\* severity critical and category best-practices and the status failure.
C22_GreedySpan ==
    fnParsed # <<>> =>
        LET v == fnParsed[1].value
            toks == fnText.toks
            obj == fnText.obj
            raw == Or(Prop(obj, "issues"), JArr(<<>>))
        IN /\ fnParsed[1].kind = "return"
           /\ (toks \in ProseAroundObject /\ UsablePayload(obj)) =>
                 /\ BraceSpan(toks) = <<"J">>
                 /\ Len(v.issues) = Len(raw.a)
                 /\ \A i \in DOMAIN raw.a : v.issues[i] = NormalizeIssue(raw.a[i])
                 /\ v.filesReviewed = Or(Prop(obj, "filesReviewed"), JArr(<<>>))
           /\ BraceSpan(toks) \notin {<<"J">>, <<"{", "}">>} => v = EmptyParsed
           /\ BraceSpan(toks) = <<"{", "}">> =>
                 (v.issues = <<>> /\ v.filesReviewed = JArr(<<>>))
           /\ (toks = <<"p", "J", "p">> /\ obj = ObjA) =>
                 /\ Len(v.issues) = 1
                 /\ v.issues[1].severity = "critical"
                 /\ v.issues[1].category = "best-practices"
                 /\ v.issues[1].filePath = JStr(<<"a.ts">>)
                 /\ fnStatus # <<>> => fnStatus[1] = "failure"

C22_Witness ==
    /\ fnText = [toks |-> <<"p", "J", "p">>, obj |-> ObjA]
    /\ fnParsed # <<>>
    /\ Len(fnParsed[1].value.issues) = 1
    /\ fnParsed[1].value.issues[1].severity = "critical"
    /\ fnParsed[1].value.issues[1].category = "best-practices"
    /\ fnParsed[1].value.filesReviewed = JArr(<<JStr(<<"a.ts">>)>>)
    /\ fnStatus = Some("failure")

\* two objects in one text: the span covers both and is not JSON
C22_WitnessTwoObjects ==
    /\ fnText = [toks |-> <<"J", "p", "J">>, obj |-> ObjA]
    /\ fnParsed # <<>>
    /\ fnParsed[1].value = EmptyParsed

\* the value a finding holds under a key, JUndef when the key is absent
Held(issue, k) == IF k \in DOMAIN issue.o THEN issue.o[k] ELSE JUndef

\* the first key when the finding has it, otherwise the second
FirstPresent(issue, k1, k2) ==
    IF k1 \in DOMAIN issue.o THEN issue.o[k1] ELSE Held(issue, k2)

\* the first key when its value is truthy (not absent, null or empty),
\* otherwise whatever the second key holds
FirstTruthy(issue, k1, k2) ==
    IF JTruthy(Held(issue, k1)) THEN issue.o[k1] ELSE Held(issue, k2)

\* the findings behind the normalised issues, when the text is one usable
\* object in brace-free prose
AliasCases ==
    IF fnParsed # <<>> /\ fnText.toks \in ProseAroundObject /\ UsablePayload(fnText.obj)
    THEN DOMAIN Or(Prop(fnText.obj, "issues"), JArr(<<>>)).a
    ELSE {}

\* C23 as stated: each alias pair takes the first key whenever the finding
\* has it, and the second key only when the first is absent.
C23_FirstPresentWins ==
    \A i \in AliasCases :
        LET raw == RawIssuesOf(fnText)[i]
            out == fnParsed[1].value.issues[i]
        IN /\ ("file" \in DOMAIN raw.o \/ "filePath" \in DOMAIN raw.o)
                 => out.filePath = FirstPresent(raw, "file", "filePath")
           /\ out.message = FirstPresent(raw, "description", "message")
           /\ out.suggestion = FirstPresent(raw, "recommendation", "suggestion")

\* C23: each alias pair takes the first key when its value is truthy and
\* otherwise the second key: filePath from file, else filePath, else
\* "unknown"; message from description, else message; suggestion from
\* recommendation, else suggestion.  When both keys hold a non-empty text
\* the first one wins.
C23_FirstTruthyWins ==
    \A i \in AliasCases :
        LET raw == RawIssuesOf(fnText)[i]
            out == fnParsed[1].value.issues[i]
            path == FirstTruthy(raw, "file", "filePath")
        IN /\ out.filePath = (IF JTruthy(path) THEN path ELSE JStr(<<"unknown">>))
           /\ out.message = FirstTruthy(raw, "description", "message")
           /\ out.suggestion = FirstTruthy(raw, "recommendation", "suggestion")

C23_Witness ==
    /\ fnParsed # <<>>
    /\ fnText.toks = <<"J">>
    /\ fnText.obj =
          ObjWith(JArr(<<JObj([recommendation |-> JStr(<<"a.ts">>),
                               suggestion |-> JStr(<<"b.ts">>)])>>), JArr(<<>>))
    /\ fnParsed[1].value.issues[1].suggestion = JStr(<<"a.ts">>)
    /\ fnParsed[1].value.issues[1].filePath = JStr(<<"unknown">>)

\* the first key is present but empty: the second key is used
C23_WitnessEmptyFirst ==
    /\ fnParsed # <<>>
    /\ fnText.toks = <<"J">>
    /\ fnText.obj =
          ObjWith(JArr(<<JObj([file |-> JStr(<<>>), filePath |-> JStr(<<"b.ts">>)])>>),
                  JArr(<<>>))
    /\ fnParsed[1].value.issues[1].filePath = JStr(<<"b.ts">>)

\* the ids of a rule list are pairwise distinct
DistinctIds(list) == \A i, j \in DOMAIN list : list[i].id = list[j].id => i = j

\* C24 as stated: whatever the order of the caller's list and of the
\* default list, merging yields the set of enabled rules the constructor
\* resolved.
C24_OrderIndependent ==
    fnMerged # <<>> => Range(fnMerged[1].rules) = Range(config[1]["rules"][1])

\* C24: when the ids of the caller's list are pairwise distinct, merging
\* yields the same set of enabled rules for every order of that list and
\* for the default list in either direction; among entries of one id the
\* later one decides.
C24_OrderIndependentDistinctIds ==
    fnMerged # <<>> =>
        /\ DistinctIds(userConfig["rules"][1])
              => Range(fnMerged[1].rules) = Range(config[1]["rules"][1])
        /\ \A r \in UserRuleCandidates :
              (fnMerged[1].user # <<>> /\ fnMerged[1].user[Len(fnMerged[1].user)] = r)
                 => (r \in Range(fnMerged[1].rules) <=> r.enabled)

C24_Witness ==
    /\ fnMerged # <<>>
    /\ userConfig["rules"][1] =
          << Rule("security-xss", "user xss", "info", "security", FALSE),
             Rule("custom-react-hooks", "React Hooks Best Practices", "error",
                  "best-practices", TRUE) >>
    /\ fnMerged[1].user = Reversed(userConfig["rules"][1])
    /\ fnMerged[1].defaultsReversed
    /\ Range(fnMerged[1].rules) = Range(config[1]["rules"][1])
    /\ \E i \in DOMAIN fnMerged[1].rules : fnMerged[1].rules[i].id = "custom-react-hooks"

\* the same id twice with opposite flags: the order decides
C24_WitnessDuplicateId ==
    /\ fnMerged # <<>>
    /\ ~DistinctIds(userConfig["rules"][1])
    /\ Range(fnMerged[1].rules) # Range(config[1]["rules"][1])

\* C25: a failed fetch of the pull-request metadata or of the changed-file
\* list never marks the action failed, and the run still performs the
\* review with an undefined or partial PR context.
C25_FetchFailureRecovered ==
    (action # <<>> /\ action.fetchFailed) =>
        /\ action.failedBy # "fetch"
        /\ ~action.rethrown \/ action.reviewRan
        /\ action.pc = "done" => action.reviewRan

\* part_006 recovers: after a failed listFiles it warns and reviews with an
\* empty changed-file list
C25_WitnessRecovered ==
    /\ action # <<>>
    /\ action.entry = "part_006"
    /\ action.fetchFailed
    /\ action.warned
    /\ action.reviewRan
    /\ action.prContext = Some([changedFiles |-> <<>>, fileDiffs |-> Some(<<>>)])
    /\ action.pc = "done"
    /\ action.failedBy = ""

\* the PR context of the configuration the prompt was built from
PrOf(cfg) == Get(cfg, "prContext")

\* C26 as stated: the prompt of agents/code-reviewer.ts carries the
\* priority instruction exactly when the configuration carries a PR context.
C26_PriorityWithPrContext ==
    (impl = "code-reviewer" /\ prompt # <<>>) =>
        (prompt[1].priority <=> PrOf(config[1]) # <<>>)

\* C26: the prompt carries the priority instruction exactly when the PR
\* context carries a changedFiles list (an empty list included); without a
\* PR context, or with one that has no changedFiles, the instruction is
\* absent, while the PR section is present whenever there is a PR context.
C26_PriorityWithChangedFiles ==
    (impl = "code-reviewer" /\ prompt # <<>>) =>
        LET pr == PrOf(config[1])
        IN /\ prompt[1].priority <=>
                 /\ pr # <<>>
                 /\ "changedFiles" \in DOMAIN pr[1]
                 /\ pr[1]["changedFiles"] # <<>>
           /\ prompt[1].prSection <=> pr # <<>>

C26_Witness ==
    /\ impl = "code-reviewer"
    /\ prompt # <<>>
    /\ PrOf(config[1]) = Some([changedFiles |-> Some(<<>>)])
    /\ prompt[1].priority
    /\ prompt[1].prSection

\* a PR context without changedFiles: PR section, no priority instruction
C26_WitnessNoChangedFiles ==
    /\ impl = "code-reviewer"
    /\ prompt # <<>>
    /\ PrOf(config[1]) = Some(<<>>)
    /\ prompt[1].prSection
    /\ ~prompt[1].priority

\* the diffs the PR context of the configuration carries
DiffsOf(cfg) ==
    IF PrOf(cfg) # <<>> /\ Get(PrOf(cfg)[1], "fileDiffs") # <<>>
    THEN PrOf(cfg)[1]["fileDiffs"][1] ELSE <<>>

\* C27: the prompt renders the first 15 of the file diffs, in order, and the
\* first 2000 characters of each patch; a rendered patch carries the
\* truncation marker exactly when the patch is longer than 2000 characters;
\* the omitted-files marker appears exactly when there are more than 15
\* diffs and states how many are left out, so that the files rendered and
\* the files announced as omitted add up to the files of the pull request.
C27_DiffsBounded ==
    (impl = "code-reviewer" /\ prompt # <<>>) =>
        LET all == DiffsOf(config[1])
            d == prompt[1].diffs
        IN /\ Len(d.files) <= 15
           /\ Len(d.files) = (IF Len(all) <= 15 THEN Len(all) ELSE 15)
           /\ \A i \in DOMAIN d.files :
                 LET given == all[i].patch
                     shown == d.files[i]
                 IN /\ shown.filename = all[i].filename
                    /\ (given = <<>> \/ given = <<0>>) =>
                          (shown.patch = <<>> /\ ~shown.truncated)
                    /\ (given # <<>> /\ given # <<0>>) =>
                          /\ shown.patch # <<>>
                          /\ shown.patch[1] <= 2000
                          /\ shown.patch[1] = (IF given[1] <= 2000 THEN given[1] ELSE 2000)
                          /\ shown.truncated <=> given[1] > 2000
           /\ (d.more # <<>>) <=> Len(all) > 15
           /\ d.more # <<>> => d.more[1] = Len(all) - 15
           /\ Len(d.files) + (IF d.more # <<>> THEN d.more[1] ELSE 0) = Len(all)
           /\ Len(all) > 0 => d.count = Some(Len(all))

C27_Witness ==
    /\ impl = "code-reviewer"
    /\ prompt # <<>>
    /\ Len(DiffsOf(config[1])) = 17
    /\ DiffsOf(config[1])[1].patch = Some(2001)
    /\ Len(prompt[1].diffs.files) = 15
    /\ prompt[1].diffs.more = Some(2)
    /\ prompt[1].diffs.files[15].patch = Some(2000)
    /\ prompt[1].diffs.files[15].truncated

\* nothing is cut: fifteen diffs of exactly 2000 characters, no marker
C27_WitnessNothingCut ==
    /\ impl = "code-reviewer"
    /\ prompt # <<>>
    /\ Len(DiffsOf(config[1])) = 15
    /\ DiffsOf(config[1])[1].patch = Some(2000)
    /\ prompt[1].diffs.more = <<>>
    /\ \A i \in 1..15 : ~prompt[1].diffs.files[i].truncated

\* C28: over any sequence of review() calls on one agent, the session id a
\* result reports is "unknown" exactly when the stream of that very review
\* carried no session id, whatever earlier reviews captured.
C28_UnknownIffStreamHadNoId ==
    pc = "returned" =>
        ((result[1].metadata.sessionId = "unknown") <=> ~IsDefined(streamSessionId))

\* C29: in every returned result, whatever the severity threshold, the
\* status is failure iff stats.issuesBySeverity.critical > 0, partial iff
\* critical = 0 and error > 0, and success otherwise; it does not follow the
\* issues that survive the threshold, so a partial result may list no issue.
C29_StatusAgreesWithStats ==
    pc = "returned" =>
        LET r == result[1]
            by == r.stats.issuesBySeverity
        IN /\ (r.status = "failure") <=> (by["critical"] > 0)
           /\ (r.status = "partial") <=> (by["critical"] = 0 /\ by["error"] > 0)
           /\ (r.status = "success") <=> (by["critical"] = 0 /\ by["error"] = 0)
           /\ \A i \in DOMAIN r.issues :
                 /\ r.issues[i].severity = "critical" => r.status = "failure"
                 /\ r.issues[i].severity = "error" => r.status # "success"

C29_Witness ==
    /\ pc = "returned"
    /\ nResults = 1
    /\ Get(config[1], "severityThreshold") = Some("critical")
    /\ result[1].status = "partial"
    /\ result[1].issues = <<>>
    /\ result[1].stats.issuesBySeverity =
          [critical |-> 0, error |-> 1, warning |-> 1, info |-> 0]

RECURSIVE SumOver(_, _)
SumOver(counts, keys) ==
    IF keys = {} THEN 0
    ELSE LET k == CHOOSE k \in keys : TRUE
         IN counts[k] + SumOver(counts, keys \ {k})

\* sub is all with some elements left out, the others in their order
IsSubList(sub, all) ==
    \E f \in [DOMAIN sub -> DOMAIN all] :
        /\ \A i, j \in DOMAIN sub : i < j => f[i] < f[j]
        /\ \A i \in DOMAIN sub : sub[i] = all[f[i]]

\* C30: in every returned result the four per-severity counts add up to
\* stats.totalIssues, the seven per-category counts add up to
\* stats.totalIssues, the numbers of the summary equal the entries of
\* stats.issuesBySeverity and stats.totalIssues, stats.totalFiles is the
\* length of filesReviewed, and result.issues is the normalised issue list
\* with some issues left out and the order kept, never longer than
\* stats.totalIssues.
C30_AggregatesConsistent ==
    pc = "returned" =>
        LET r == result[1]
        IN /\ DOMAIN r.stats.issuesBySeverity = SEVERITIES
           /\ DOMAIN r.stats.issuesByCategory = CATEGORIES
           /\ SumOver(r.stats.issuesBySeverity, SEVERITIES) = r.stats.totalIssues
           /\ SumOver(r.stats.issuesByCategory, CATEGORIES) = r.stats.totalIssues
           /\ r.summary.critical = r.stats.issuesBySeverity["critical"]
           /\ r.summary.errors = r.stats.issuesBySeverity["error"]
           /\ r.summary.warnings = r.stats.issuesBySeverity["warning"]
           /\ r.summary.found = r.stats.totalIssues
           /\ r.summary.files = r.stats.totalFiles
           /\ r.filesReviewed.t = "arr" => r.stats.totalFiles = Some(Len(r.filesReviewed.a))
           /\ IsSubList(r.issues, AllIssues)
           /\ Len(r.issues) <= r.stats.totalIssues

C30_Witness ==
    /\ pc = "returned"
    /\ Get(config[1], "severityThreshold") = Some("warning")
    /\ result[1].stats.totalIssues = 2
    /\ result[1].stats.totalFiles = Some(1)
    /\ result[1].stats.issuesBySeverity["info"] = 1
    /\ result[1].stats.issuesByCategory["best-practices"] = 1
    /\ result[1].stats.issuesByCategory["bugs"] = 1
    /\ Len(result[1].issues) = 1
    /\ result[1].issues[1].severity = "warning"

====
